---------------------------- MODULE Spec2Model ----------------------------
(***************************************************************************)
(* Model of the context-dependency pipeline of Extractor_Snippets:         *)
(*   core/robust_json_parser.py, snippets/agents/{llm_client, base_agent,  *)
(*   context_analyzer, enhanced_analyzer, improved_context_analyzer,       *)
(*   precision_filter, context_builder}.py                                 *)
(*                                                                         *)
(* Texts are sequences of one-character strings.  Floats in [0,1] are      *)
(* integers counted in tenths (0.5 is 5).                                  *)
(***************************************************************************)
EXTENDS Integers, Sequences, FiniteSets, TLC

VARIABLES
    op,               \* the operation the current state is the result of
    args,             \* the arguments of that call
    result,           \* what that call returned or raised
    parsing_stats,    \* RobustJSONParser.parsing_stats
    calls,            \* parse calls made since the counters were last zero
    session_cost,     \* GroqLLMClient.session_cost
    session_requests, \* GroqLLMClient.session_requests
    cache,            \* the entries of GroqLLMClient.cache_dir
    tasks,            \* the generate coroutines gathered on the client
    self_window_size, \* ContextAnalyzer.window_size (self.window_size)
    analyses,         \* analyze calls made on the analyzer
    oracle,           \* what the Oracle Client did during the last analyze call
    precision_filter, \* PrecisionFilter: filter_rules and the custom filter functions
    enable_llm,       \* ContextBuilder.enable_llm
    validator,        \* EnhancedValidator: enable_agents and stats
    builtins,         \* the process-wide builtins.input and builtins.open
    threads           \* the threads validate has started for its snippets

vars == <<op, args, result, parsing_stats, calls, session_cost, session_requests, cache,
          tasks, self_window_size, analyses, oracle, precision_filter, enable_llm,
          validator, builtins, threads>>

parserVars == <<parsing_stats, calls>>

clientVars == <<session_cost, session_requests, cache, tasks>>

analyzerVars == <<self_window_size, analyses, oracle>>

filterVars == <<precision_filter>>

builderVars == <<enable_llm>>

validatorVars == <<validator, builtins, threads>>

(***************************************************************************)
(* Characters                                                              *)
(***************************************************************************)
Digits == {"0", "1", "2", "3", "4", "5", "6", "7", "8", "9"}

Letters == {"a", "b", "c", "d", "e", "f", "g", "h", "i", "j", "k", "l", "m",
            "n", "o", "p", "q", "r", "s", "t", "u", "v", "w", "x", "y", "z",
            "A", "B", "C", "D", "E", "F", "G", "H", "I", "J", "K", "L", "M",
            "N", "O", "P", "Q", "R", "S", "T", "U", "V", "W", "X", "Y", "Z"}

\* \s of the re module and the whitespace str.strip() removes
Whitespace == {" ", "\t", "\n", "\r", "\f"}

\* \w of the re module
WordChars == Letters \cup Digits \cup {"_"}

DigitValue(c) ==
    CASE c = "0" -> 0 [] c = "1" -> 1 [] c = "2" -> 2 [] c = "3" -> 3
      [] c = "4" -> 4 [] c = "5" -> 5 [] c = "6" -> 6 [] c = "7" -> 7
      [] c = "8" -> 8 [] c = "9" -> 9

Max(a, b) == IF a >= b THEN a ELSE b

Min(a, b) == IF a <= b THEN a ELSE b

\* s[a..b], empty when b < a
Slice(s, a, b) == IF b < a THEN <<>> ELSE SubSeq(s, a, b)

\* str.strip()
Strip(s) ==
    LET keep == {i \in 1..Len(s) : s[i] \notin Whitespace}
    IN IF keep = {} THEN <<>>
       ELSE Slice(s, CHOOSE i \in keep : \A j \in keep : i <= j,
                     CHOOSE i \in keep : \A j \in keep : i >= j)

(***************************************************************************)
(* json.loads.  A decoded value is a record                                *)
(*   [k: kind, n: number in tenths or 0/1 for a boolean, s: string,        *)
(*    a: array items, o: object members <<key, value>> in insertion order] *)
(* Numbers of the modelled texts carry at most one fractional digit and no *)
(* exponent; strings carry no \u escape.                                   *)
(***************************************************************************)
JNull == [k |-> "null", n |-> 0, s |-> <<>>, a |-> <<>>, o |-> <<>>]

JBool(b) == [k |-> "bool", n |-> IF b THEN 1 ELSE 0, s |-> <<>>, a |-> <<>>, o |-> <<>>]

JNum(n) == [k |-> "num", n |-> n, s |-> <<>>, a |-> <<>>, o |-> <<>>]

JStr(s) == [k |-> "str", n |-> 0, s |-> s, a |-> <<>>, o |-> <<>>]

JArr(a) == [k |-> "arr", n |-> 0, s |-> <<>>, a |-> a, o |-> <<>>]

JObj(o) == [k |-> "obj", n |-> 0, s |-> <<>>, a |-> <<>>, o |-> o]

\* a failed decode at any level (json.JSONDecodeError)
JFail == [ok |-> FALSE, v |-> JNull, p |-> 0]

JOk(v, p) == [ok |-> TRUE, v |-> v, p |-> p]

\* the whitespace the json scanner skips
JsonWs == {" ", "\t", "\n", "\r"}

SkipWs(s, i) ==
    CHOOSE j \in i..(Len(s) + 1) :
        /\ \A m \in i..(j - 1) : s[m] \in JsonWs
        /\ (j = Len(s) + 1 \/ s[j] \notin JsonWs)

StartsWith(s, i, w) ==
    /\ i + Len(w) - 1 <= Len(s)
    /\ \A m \in 1..Len(w) : s[i + m - 1] = w[m]

\* the character an escape \c stands for
Unescape(c) ==
    CASE c = "n" -> "\n" [] c = "t" -> "\t" [] c = "r" -> "\r"
      [] c = "f" -> "\f" [] c = "b" -> "\\b" [] OTHER -> c

\* py_scanstring after the opening quote at i - 1: the decoded characters and
\* the position after the closing quote, strict mode (no raw control character)
RECURSIVE ScanString(_, _, _)
ScanString(s, i, acc) ==
    IF i > Len(s) THEN JFail
    ELSE IF s[i] = "\"" THEN JOk(JStr(acc), i + 1)
    ELSE IF s[i] \in {"\n", "\t", "\r", "\f"} THEN JFail
    ELSE IF s[i] = "\\"
         THEN IF i + 1 <= Len(s) /\ s[i + 1] \in {"\"", "\\", "/", "b", "f", "n", "r", "t"}
              THEN ScanString(s, i + 2, Append(acc, Unescape(s[i + 1])))
              ELSE JFail
    ELSE ScanString(s, i + 1, Append(acc, s[i]))

\* the end of the digit run starting at i
DigitsEnd(s, i) ==
    CHOOSE j \in i..(Len(s) + 1) :
        /\ \A m \in i..(j - 1) : s[m] \in Digits
        /\ (j = Len(s) + 1 \/ s[j] \notin Digits)

RECURSIVE IntOf(_)
IntOf(ds) == IF ds = <<>> THEN 0
             ELSE 10 * IntOf(SubSeq(ds, 1, Len(ds) - 1)) + DigitValue(ds[Len(ds)])

\* NUMBER_RE of json.scanner: -?(0|[1-9]\d*)(\.\d+)? ; the value in tenths
ScanNumber(s, i) ==
    LET neg == i <= Len(s) /\ s[i] = "-"
        b == IF neg THEN i + 1 ELSE i
        e0 == DigitsEnd(s, b)
        e == IF b <= Len(s) /\ s[b] = "0" THEN b + 1 ELSE e0
        hasFrac == e + 1 <= Len(s) /\ s[e] = "." /\ s[e + 1] \in Digits
        tenths == 10 * IntOf(Slice(s, b, e - 1))
                    + (IF hasFrac THEN DigitValue(s[e + 1]) ELSE 0)
    IN IF e = b THEN JFail
       ELSE JOk(JNum(IF neg THEN 0 - tenths ELSE tenths), IF hasFrac THEN e + 2 ELSE e)

\* dict semantics: a later member with the same key replaces the earlier one
PutMember(o, key, val) ==
    IF \E m \in 1..Len(o) : o[m][1] = key
    THEN [m \in 1..Len(o) |-> IF o[m][1] = key THEN <<key, val>> ELSE o[m]]
    ELSE Append(o, <<key, val>>)

RECURSIVE ScanValue(_, _)
RECURSIVE ScanArray(_, _, _)
RECURSIVE ScanObject(_, _, _)

\* json.scanner.py_make_scanner._scan_once
ScanValue(s, i) ==
    IF i > Len(s) THEN JFail
    ELSE IF s[i] = "\"" THEN ScanString(s, i + 1, <<>>)
    ELSE IF s[i] = "{"
         THEN LET j == SkipWs(s, i + 1)
              IN IF j <= Len(s) /\ s[j] = "}" THEN JOk(JObj(<<>>), j + 1)
                 ELSE ScanObject(s, j, <<>>)
    ELSE IF s[i] = "["
         THEN LET j == SkipWs(s, i + 1)
              IN IF j <= Len(s) /\ s[j] = "]" THEN JOk(JArr(<<>>), j + 1)
                 ELSE ScanArray(s, j, <<>>)
    ELSE IF StartsWith(s, i, <<"n", "u", "l", "l">>) THEN JOk(JNull, i + 4)
    ELSE IF StartsWith(s, i, <<"t", "r", "u", "e">>) THEN JOk(JBool(TRUE), i + 4)
    ELSE IF StartsWith(s, i, <<"f", "a", "l", "s", "e">>) THEN JOk(JBool(FALSE), i + 5)
    ELSE ScanNumber(s, i)

\* json.decoder.JSONArray: i is at the first character of the next item
ScanArray(s, i, acc) ==
    LET r == ScanValue(s, i)
    IN IF ~r.ok THEN JFail
       ELSE LET j == SkipWs(s, r.p)
            IN IF j > Len(s) THEN JFail
               ELSE IF s[j] = "]" THEN JOk(JArr(Append(acc, r.v)), j + 1)
               ELSE IF s[j] = "," THEN ScanArray(s, SkipWs(s, j + 1), Append(acc, r.v))
               ELSE JFail

\* json.decoder.JSONObject: i is at the opening quote of the next key
ScanObject(s, i, acc) ==
    IF i > Len(s) \/ s[i] # "\"" THEN JFail
    ELSE LET key == ScanString(s, i + 1, <<>>)
         IN IF ~key.ok THEN JFail
            ELSE LET c == SkipWs(s, key.p)
                 IN IF c > Len(s) \/ s[c] # ":" THEN JFail
                    ELSE LET r == ScanValue(s, SkipWs(s, c + 1))
                         IN IF ~r.ok THEN JFail
                            ELSE LET j == SkipWs(s, r.p)
                                     o2 == PutMember(acc, key.v.s, r.v)
                                 IN IF j > Len(s) THEN JFail
                                    ELSE IF s[j] = "}" THEN JOk(JObj(o2), j + 1)
                                    ELSE IF s[j] = ","
                                         THEN ScanObject(s, SkipWs(s, j + 1), o2)
                                    ELSE JFail

\* json.loads(s): one value between optional whitespace, nothing after it
Whole(s, r) == IF r.ok /\ SkipWs(s, r.p) = Len(s) + 1 THEN JOk(r.v, r.p) ELSE JFail

json_loads(s) == Whole(s, ScanValue(s, SkipWs(s, 1)))

(***************************************************************************)
(* The re module, as far as the repository's patterns use it.  A pattern   *)
(* is a record tree; RM returns every way the pattern matches at position  *)
(* i, in the order a backtracking matcher tries them, so the head of the   *)
(* result is the match re returns.  g holds the groups' <<begin, end>>     *)
(* positions (end exclusive, <<0, 0>> when the group did not take part).   *)
(***************************************************************************)
RChr(S) == [t |-> "in", cs |-> S]

\* [^...]; RNot({}) is . under re.DOTALL
RNot(S) == [t |-> "notin", cs |-> S]

RSeq(rs) == [t |-> "seq", rs |-> rs]

RAlt(rs) == [t |-> "alt", rs |-> rs]

\* r* (greedy)
RStar(r) == [t |-> "star", r |-> r]

\* r*? (lazy)
RLazy(r) == [t |-> "lazy", r |-> r]

\* r+
RPlus(r) == RSeq(<<r, RStar(r)>>)

\* r?
ROpt(r) == RAlt(<<r, RSeq(<<>>)>>)

\* (r), the n-th group
RGrp(n, r) == [t |-> "grp", n |-> n, r |-> r]

\* a literal string
RLit(w) == RSeq([m \in 1..Len(w) |-> RChr({w[m]})])

\* ^ and $ (without and with re.MULTILINE), \b
RBeg == [t |-> "beg"]

REnd == [t |-> "end"]

RBegM == [t |-> "begm"]

REndM == [t |-> "endm"]

RWordB == [t |-> "wordb"]

\* (?<!r) for a one-character r, and (?!r)
RNotBehind(S) == [t |-> "notbehind", cs |-> S]

RNotAhead(r) == [t |-> "notahead", r |-> r]

MaxGroups == 3

NoGroups == [n \in 1..MaxGroups |-> <<0, 0>>]

IsWordAt(s, i) == i >= 1 /\ i <= Len(s) /\ s[i] \in WordChars

RECURSIVE RM(_, _, _, _)
RECURSIVE RMSeq(_, _, _, _, _)
RECURSIVE RMSeqRest(_, _, _, _, _)
RECURSIVE RMAlt(_, _, _, _, _)
RECURSIVE RMMore(_, _, _, _, _)

RMHere(i, g) == <<[p |-> i, g |-> g]>>

RM(r, s, i, g) ==
    CASE r.t = "in" ->
            IF i <= Len(s) /\ s[i] \in r.cs THEN RMHere(i + 1, g) ELSE <<>>
      [] r.t = "notin" ->
            IF i <= Len(s) /\ s[i] \notin r.cs THEN RMHere(i + 1, g) ELSE <<>>
      [] r.t = "seq" -> RMSeq(r.rs, 1, s, i, g)
      [] r.t = "alt" -> RMAlt(r.rs, 1, s, i, g)
      [] r.t = "star" -> RMMore(RM(r.r, s, i, g), 1, r, s, i) \o RMHere(i, g)
      [] r.t = "lazy" -> RMHere(i, g) \o RMMore(RM(r.r, s, i, g), 1, r, s, i)
      [] r.t = "grp" ->
            LET ms == RM(r.r, s, i, g)
            IN [m \in 1..Len(ms) |->
                    [p |-> ms[m].p, g |-> [ms[m].g EXCEPT ![r.n] = <<i, ms[m].p>>]]]
      [] r.t = "beg" -> IF i = 1 THEN RMHere(i, g) ELSE <<>>
      [] r.t = "begm" -> IF i = 1 \/ s[i - 1] = "\n" THEN RMHere(i, g) ELSE <<>>
      [] r.t = "end" ->
            IF i = Len(s) + 1 \/ (i = Len(s) /\ s[i] = "\n") THEN RMHere(i, g) ELSE <<>>
      [] r.t = "endm" ->
            IF i = Len(s) + 1 \/ s[i] = "\n" THEN RMHere(i, g) ELSE <<>>
      [] r.t = "wordb" ->
            IF IsWordAt(s, i - 1) # IsWordAt(s, i) THEN RMHere(i, g) ELSE <<>>
      [] r.t = "notbehind" ->
            IF i > 1 /\ s[i - 1] \in r.cs THEN <<>> ELSE RMHere(i, g)
      [] r.t = "notahead" ->
            IF RM(r.r, s, i, g) # <<>> THEN <<>> ELSE RMHere(i, g)

\* rs[k], rs[k+1], ... in sequence from position i
RMSeq(rs, k, s, i, g) ==
    IF k > Len(rs) THEN RMHere(i, g)
    ELSE RMSeqRest(RM(rs[k], s, i, g), 1, rs, k + 1, s)

\* for each way ms[j], ms[j+1], ... the k-1-th item matched, the rest of the sequence
RMSeqRest(ms, j, rs, k, s) ==
    IF j > Len(ms) THEN <<>>
    ELSE RMSeq(rs, k, s, ms[j].p, ms[j].g) \o RMSeqRest(ms, j + 1, rs, k, s)

RMAlt(rs, k, s, i, g) ==
    IF k > Len(rs) THEN <<>>
    ELSE RM(rs[k], s, i, g) \o RMAlt(rs, k + 1, s, i, g)

\* one more repetition of a star after each way its body matched from i
\* (a repetition that consumed nothing is not repeated)
RMMore(ms, j, r, s, i) ==
    IF j > Len(ms) THEN <<>>
    ELSE (IF ms[j].p > i THEN RM(r, s, ms[j].p, ms[j].g) ELSE <<>>)
            \o RMMore(ms, j + 1, r, s, i)

NoMatch == [found |-> FALSE, b |-> 0, e |-> 0, g |-> NoGroups]

\* the match object for the ways ms a pattern matched at position i
FirstOf(ms, i) ==
    IF ms # <<>> THEN [found |-> TRUE, b |-> i, e |-> ms[1].p, g |-> ms[1].g]
    ELSE NoMatch

\* re.search(r, s) from position i on: the leftmost match
RECURSIVE SearchFrom(_, _, _)
SearchAt(r, s, i, m) == IF m.found THEN m ELSE SearchFrom(r, s, i + 1)

SearchFrom(r, s, i) ==
    IF i > Len(s) + 1 THEN NoMatch
    ELSE SearchAt(r, s, i, FirstOf(RM(r, s, i, NoGroups), i))

re_search(r, s) == SearchFrom(r, s, 1)

\* re.match(r, s)
re_match(r, s) == FirstOf(RM(r, s, 1, NoGroups), 1)

\* m.group(n)
Group(s, m, n) == Slice(s, m.g[n][1], m.g[n][2] - 1)

\* a replacement template is a sequence of pieces [lit, grp]: the literal text,
\* or group grp when grp > 0
Lit(w) == [lit |-> w, grp |-> 0]

Ref(n) == [lit |-> <<>>, grp |-> n]

RECURSIVE Expand(_, _, _)
Expand(repl, s, m) ==
    IF repl = <<>> THEN <<>>
    ELSE (IF Head(repl).grp > 0 THEN Group(s, m, Head(repl).grp) ELSE Head(repl).lit)
            \o Expand(Tail(repl), s, m)

\* re.sub(r, repl, s): every non-overlapping match, left to right
RECURSIVE SubFrom(_, _, _, _, _)
\* after the match m was replaced; an empty match moves on by one character
SubNext(r, repl, s, m, done) ==
    IF m.e > m.b THEN SubFrom(r, repl, s, m.e, done)
    ELSE IF m.b > Len(s) THEN done
    ELSE SubFrom(r, repl, s, m.b + 1, Append(done, s[m.b]))

SubMatch(r, repl, s, pos, acc, m) ==
    IF ~m.found THEN acc \o Slice(s, pos, Len(s))
    ELSE SubNext(r, repl, s, m, acc \o Slice(s, pos, m.b - 1) \o Expand(repl, s, m))

SubFrom(r, repl, s, pos, acc) == SubMatch(r, repl, s, pos, acc, SearchFrom(r, s, pos))

re_sub(r, repl, s) == SubFrom(r, repl, s, 1, <<>>)

\* re.findall(r, s) for a pattern with one group: group 1 of every match
RECURSIVE FindAllFrom(_, _, _)
FindAllMatch(r, s, m) ==
    IF ~m.found THEN <<>>
    ELSE <<Group(s, m, 1)>> \o
         (IF m.e > m.b THEN FindAllFrom(r, s, m.e)
          ELSE IF m.b > Len(s) THEN <<>> ELSE FindAllFrom(r, s, m.b + 1))

FindAllFrom(r, s, pos) == FindAllMatch(r, s, SearchFrom(r, s, pos))

re_findall(r, s) == FindAllFrom(r, s, 1)

(***************************************************************************)
(* core/robust_json_parser.py: RobustJSONParser                            *)
(***************************************************************************)
K_variables == <<"v", "a", "r", "i", "a", "b", "l", "e", "s">>

K_dependencies == <<"d", "e", "p", "e", "n", "d", "e", "n", "c", "i", "e", "s">>

K_imports == <<"i", "m", "p", "o", "r", "t", "s">>

K_functions == <<"f", "u", "n", "c", "t", "i", "o", "n", "s">>

K_classes == <<"c", "l", "a", "s", "s", "e", "s">>

K_confidence == <<"c", "o", "n", "f", "i", "d", "e", "n", "c", "e">>

Quoted(w) == <<"\"">> \o w \o <<"\"">>

\* Python's None.  json.loads gives it for the text null, and the _try_*
\* methods return it for a failed strategy.
None == JNull

\* r'```json\s*(\{.*?\})\s*```' with re.DOTALL | re.IGNORECASE
FencedJsonBlock ==
    RSeq(<<RLit(<<"<bt>", "<bt>", "<bt>">>),
           RChr({"J", "j"}), RChr({"S", "s"}), RChr({"O", "o"}), RChr({"N", "n"}),
           RStar(RChr(Whitespace)),
           RGrp(1, RSeq(<<RChr({"{"}), RLazy(RNot({})), RChr({"}"})>>)),
           RStar(RChr(Whitespace)), RLit(<<"<bt>", "<bt>", "<bt>">>)>>)

\* r'```\s*(\{.*?\})\s*```' with re.DOTALL | re.IGNORECASE
FencedBlock ==
    RSeq(<<RLit(<<"<bt>", "<bt>", "<bt>">>), RStar(RChr(Whitespace)),
           RGrp(1, RSeq(<<RChr({"{"}), RLazy(RNot({})), RChr({"}"})>>)),
           RStar(RChr(Whitespace)), RLit(<<"<bt>", "<bt>", "<bt>">>)>>)

\* r'(\{[^{}]*(?:\{[^{}]*\}[^{}]*)*\})' with re.DOTALL | re.IGNORECASE
BalancedBraces ==
    RGrp(1, RSeq(<<RChr({"{"}), RStar(RNot({"{", "}"})),
                   RStar(RSeq(<<RChr({"{"}), RStar(RNot({"{", "}"})), RChr({"}"}),
                                RStar(RNot({"{", "}"}))>>)),
                   RChr({"}"})>>))

BlockPatterns == <<FencedJsonBlock, FencedBlock, BalancedBraces>>

\* the value json.loads decoded, None after json.JSONDecodeError
Decoded(r) == IF r.ok THEN r.v ELSE None

\* the first of the matches ms[j], ms[j+1], ... that json.loads decodes
RECURSIVE FirstDecoded(_, _)
DecodedOrNext(ms, j, r) == IF r.ok THEN r ELSE FirstDecoded(ms, j + 1)

FirstDecoded(ms, j) ==
    IF j > Len(ms) THEN JFail
    ELSE DecodedOrNext(ms, j, json_loads(Strip(ms[j])))

RECURSIVE BlockExtractionFrom(_, _)
ExtractedOrNext(t, k, r) == IF r.ok THEN r.v ELSE BlockExtractionFrom(t, k + 1)

BlockExtractionFrom(t, k) ==
    IF k > Len(BlockPatterns) THEN None
    ELSE ExtractedOrNext(t, k, FirstDecoded(re_findall(BlockPatterns[k], t), 1))

_try_standard_json(t) == Decoded(json_loads(t))

_try_json_block_extraction(t) == BlockExtractionFrom(t, 1)

\* r',(\s*[}\]])' -> r'\1'
TrailingComma ==
    [pat |-> RSeq(<<RChr({","}),
                    RGrp(1, RSeq(<<RStar(RChr(Whitespace)), RChr({"]", "}"})>>))>>),
     repl |-> <<Ref(1)>>]

\* r"'([^']*)'(\s*:)" -> r'"\1"\2'
SingleQuotedKey ==
    [pat |-> RSeq(<<RChr({"'"}), RGrp(1, RStar(RNot({"'"}))), RChr({"'"}),
                    RGrp(2, RSeq(<<RStar(RChr(Whitespace)), RChr({":"})>>))>>),
     repl |-> <<Lit(<<"\"">>), Ref(1), Lit(<<"\"">>), Ref(2)>>]

\* r":(\s*)'([^']*)'" -> r':\1"\2"'
SingleQuotedValue ==
    [pat |-> RSeq(<<RChr({":"}), RGrp(1, RStar(RChr(Whitespace))), RChr({"'"}),
                    RGrp(2, RStar(RNot({"'"}))), RChr({"'"})>>),
     repl |-> <<Lit(<<":">>), Ref(1), Lit(<<"\"">>), Ref(2), Lit(<<"\"">>)>>]

\* r'([^\\])"([^"]*)"([^:])' -> r'\1\"\2\"\3'
UnescapedQuotes ==
    [pat |-> RSeq(<<RGrp(1, RNot({"\\"})), RChr({"\""}), RGrp(2, RStar(RNot({"\""}))),
                    RChr({"\""}), RGrp(3, RNot({":"}))>>),
     repl |-> <<Ref(1), Lit(<<"\\", "\"">>), Ref(2), Lit(<<"\\", "\"">>), Ref(3)>>]

\* r'}(\s*)(["\'{])' -> r'},\1\2'
MissingComma ==
    [pat |-> RSeq(<<RChr({"}"}), RGrp(1, RStar(RChr(Whitespace))),
                    RGrp(2, RChr({"\"", "'", "{"}))>>),
     repl |-> <<Lit(<<"}", ",">>), Ref(1), Ref(2)>>]

\* r'(\w+)(\s*:)' -> r'"\1"\2'
UnquotedKey ==
    [pat |-> RSeq(<<RGrp(1, RPlus(RChr(WordChars))),
                    RGrp(2, RSeq(<<RStar(RChr(Whitespace)), RChr({":"})>>))>>),
     repl |-> <<Lit(<<"\"">>), Ref(1), Lit(<<"\"">>), Ref(2)>>]

corrections ==
    <<TrailingComma, SingleQuotedKey, SingleQuotedValue, UnescapedQuotes,
      MissingComma, UnquotedKey>>

\* for pattern, replacement in cs[k..]: t = re.sub(pattern, replacement, t)
RECURSIVE ApplyAll(_, _, _)
ApplyAll(cs, k, t) ==
    IF k > Len(cs) THEN t
    ELSE ApplyAll(cs, k + 1, re_sub(cs[k].pat, cs[k].repl, t))

\* every correction is applied, then the result is decoded once
_try_error_correction(t) == Decoded(json_loads(ApplyAll(corrections, 1, Strip(t))))

\* r'//.*?$' with re.MULTILINE -> ''
LineComment ==
    [pat |-> RSeq(<<RChr({"/"}), RChr({"/"}), RLazy(RNot({"\n"})), REndM>>),
     repl |-> <<>>]

\* r'/\*.*?\*/' with re.DOTALL -> ''
BlockComment ==
    [pat |-> RSeq(<<RChr({"/"}), RChr({"*"}), RLazy(RNot({})), RChr({"*"}), RChr({"/"})>>),
     repl |-> <<>>]

\* r"'([^'\\]*(?:\\.[^'\\]*)*)'" -> r'"\1"'
SingleQuotedString ==
    [pat |-> RSeq(<<RChr({"'"}),
                    RGrp(1, RSeq(<<RStar(RNot({"'", "\\"})),
                                   RStar(RSeq(<<RChr({"\\"}), RNot({"\n"}),
                                                RStar(RNot({"'", "\\"}))>>))>>)),
                    RChr({"'"})>>),
     repl |-> <<Lit(<<"\"">>), Ref(1), Lit(<<"\"">>)>>]

_try_json5_parsing(t) ==
    Decoded(json_loads(ApplyAll(<<LineComment, BlockComment, TrailingComma,
                                  SingleQuotedString>>, 1, t)))

\* r'"<key>"[^[]*\[(.*?)\]' with re.DOTALL
ListPattern(key) ==
    RSeq(<<RLit(Quoted(key)), RStar(RNot({"["})), RChr({"["}),
           RGrp(1, RLazy(RNot({}))), RChr({"]"})>>)

\* r'"confidence"[^0-9.]*([0-9.]+)'
ConfidencePattern ==
    RSeq(<<RLit(Quoted(K_confidence)), RStar(RNot(Digits \cup {"."})),
           RGrp(1, RPlus(RChr(Digits \cup {"."})))>>)

\* r'"([^"]*)"'
QuotedItem == RSeq(<<RChr({"\""}), RGrp(1, RStar(RNot({"\""}))), RChr({"\""})>>)

\* str.split(',')
RECURSIVE SplitComma(_, _)
SplitComma(t, cur) ==
    IF t = <<>> THEN <<cur>>
    ELSE IF Head(t) = "," THEN <<cur>> \o SplitComma(Tail(t), <<>>)
    ELSE SplitComma(Tail(t), Append(cur, Head(t)))

\* [item.strip() for item in items if item.strip()]
RECURSIVE StripNonEmpty(_)
StripNonEmpty(items) ==
    IF items = <<>> THEN <<>>
    ELSE (IF Strip(Head(items)) # <<>> THEN <<Strip(Head(items))>> ELSE <<>>)
            \o StripNonEmpty(Tail(items))

QuotedOrSplit(t, quoted_items) ==
    IF quoted_items # <<>> THEN quoted_items ELSE SplitComma(t, <<>>)

_extract_list_items(t) == StripNonEmpty(QuotedOrSplit(t, re_findall(QuotedItem, t)))

\* float(w) for w made of digits and dots, in tenths; -1 for ValueError
FloatOf(w) ==
    LET dots == {i \in 1..Len(w) : w[i] = "."}
    IN IF Cardinality(dots) > 1 \/ Len(w) = Cardinality(dots) THEN -1
       ELSE IF dots = {} THEN 10 * IntOf(w)
       ELSE LET d == CHOOSE i \in dots : TRUE
            IN 10 * IntOf(Slice(w, 1, d - 1))
                 + (IF d < Len(w) THEN DigitValue(w[d + 1]) ELSE 0)

StrItems(items) == JArr([m \in 1..Len(items) |-> JStr(items[m])])

FallbackKeys == <<K_variables, K_dependencies, K_imports, K_functions, K_classes>>

\* result[key] = self._extract_list_items(m.group(1)) when the pattern matched
ListEntry(t, key, m) ==
    IF m.found THEN <<<<key, StrItems(_extract_list_items(Group(t, m, 1)))>>>> ELSE <<>>

\* the keys found in the text, in the order the method looks for them
RECURSIVE FoundLists(_, _)
FoundLists(t, k) ==
    IF k > Len(FallbackKeys) THEN <<>>
    ELSE ListEntry(t, FallbackKeys[k], re_search(ListPattern(FallbackKeys[k]), t))
            \o FoundLists(t, k + 1)

\* dict.setdefault(key, val)
SetDefault(o, key, val) ==
    IF \E m \in 1..Len(o) : o[m][1] = key THEN o ELSE Append(o, <<key, val>>)

RECURSIVE SetDefaultLists(_, _)
SetDefaultLists(o, k) ==
    IF k > Len(FallbackKeys) THEN o
    ELSE SetDefaultLists(SetDefault(o, FallbackKeys[k], JArr(<<>>)), k + 1)

\* result['confidence'] = float(m.group(1)), 0.5 after ValueError
ParsedConfidence(f) == JNum(IF f = -1 THEN 5 ELSE f)

ConfidenceEntry(t, m) ==
    IF m.found THEN <<<<K_confidence, ParsedConfidence(FloatOf(Group(t, m, 1)))>>>>
    ELSE <<>>

\* if result: fill in the keys that were not found
WithDefaults(found) ==
    IF found # <<>>
    THEN JObj(SetDefault(SetDefaultLists(found, 1), K_confidence, JNum(5)))
    ELSE None

_try_minimal_fallback(t) ==
    WithDefaults(FoundLists(t, 1) \o ConfidenceEntry(t, re_search(ConfidencePattern, t)))

Raised(msg, counter) ==
    [raised |-> TRUE, value |-> None, counter |-> counter, error |-> msg]

Returned(v, counter) == [raised |-> FALSE, value |-> v, counter |-> counter, error |-> ""]

\* the strategies of parse in the order it tries them, with their counters
StrategyNames ==
    <<"standard_json", "json_block_extraction", "error_correction",
      "json5_parsing", "minimal_fallback">>

Strategy(k, t) ==
    CASE k = 1 -> _try_standard_json(Strip(t))
      [] k = 2 -> _try_json_block_extraction(t)
      [] k = 3 -> _try_error_correction(t)
      [] k = 4 -> _try_json5_parsing(t)
      [] k = 5 -> _try_minimal_fallback(t)

\* strategies k, k+1, ...: the first result that is not None is returned
RECURSIVE Cascade(_, _)
ReturnedOrNext(t, k, r) ==
    IF r # None THEN Returned(r, StrategyNames[k]) ELSE Cascade(t, k + 1)

Cascade(t, k) ==
    IF k > Len(StrategyNames)
    THEN Raised("Unable to parse JSON from response using any strategy", "total_failures")
    ELSE ReturnedOrNext(t, k, Strategy(k, t))

\* RobustJSONParser.parse: what the call does and the counter it increments
parse(t) ==
    IF t = <<>> \/ Strip(t) = <<>>
    THEN Raised("Empty or whitespace-only text provided", "none")
    ELSE Cascade(t, 1)

(***************************************************************************)
(* The texts of the model: what a parser is given and an oracle answers.   *)
(***************************************************************************)
Texts ==
    {
      \* empty text
      <<>>,
      \* whitespace only
      <<" ">>,
      \* the null literal
      <<"n", "u", "l", "l">>,
      \* the null literal with blanks around it
      <<" ", "n", "u", "l", "l", " ">>,
      \* a boolean
      <<"t", "r", "u", "e">>,
      \* numbers
      <<"7">>,
      <<"0", ".", "5">>,
      \* a string
      <<"\"", "x", "\"">>,
      \* an array
      <<"[", "1", ",", " ", "\"", "a", "\"", "]">>,
      \* objects
      <<"{", "}">>,
      <<"{", "\"", "v", "a", "r", "i", "a", "b", "l", "e", "s", "\"", ":", " ", "[", "\"", "x", "\"", "]", ",", " ", "\"", "c", "o", "n", "f", "i", "d", "e", "n", "c", "e", "\"", ":", " ", "0", ".", "9", "}">>,
      \* a fenced block
      <<"<bt>", "<bt>", "<bt>", "j", "s", "o", "n", "\n", "{", "\"", "i", "m", "p", "o", "r", "t", "s", "\"", ":", " ", "[", "\"", "o", "s", "\"", "]", "}", "\n", "<bt>", "<bt>", "<bt>">>,
      \* an object inside prose
      <<"o", "k", " ", "{", "\"", "c", "l", "a", "s", "s", "e", "s", "\"", ":", " ", "[", "\"", "A", "\"", "]", "}", " ", ".">>,
      \* a trailing comma
      <<"{", "\"", "v", "a", "r", "i", "a", "b", "l", "e", "s", "\"", ":", " ", "[", "\"", "x", "\"", "]", ",", "}">>,
      \* an unquoted key
      <<"{", "a", ":", " ", "1", "}">>,
      \* single quotes
      <<"{", "'", "a", "'", ":", " ", "'", "b", "'", "}">>,
      \* a comment
      <<"{", "\"", "a", "\"", ":", " ", "/", "*", " ", "c", " ", "*", "/", " ", "1", "}">>,
      \* bare lists and fields
      <<"\"", "v", "a", "r", "i", "a", "b", "l", "e", "s", "\"", ":", " ", "[", "x", ",", " ", "y", "]">>,
      <<"\"", "c", "o", "n", "f", "i", "d", "e", "n", "c", "e", "\"", ":", " ", "0", ".", "3">>,
      \* nothing to recover
      <<"n", "o", " ", "j", "s", "o", "n">>,
      <<"{">>
    }

\* what the Oracle answers in the model
Answers ==
    {
      \* confidence above, at and below the threshold, and none
      <<"{", "\"", "v", "a", "r", "i", "a", "b", "l", "e", "s", "\"", ":", " ", "[", "\"", "z", "\"", "]", ",", " ", "\"", "c", "o", "n", "f", "i", "d", "e", "n", "c", "e", "\"", ":", " ", "0", ".", "9", "}">>,
      <<"{", "\"", "v", "a", "r", "i", "a", "b", "l", "e", "s", "\"", ":", " ", "[", "\"", "z", "\"", "]", ",", " ", "\"", "c", "o", "n", "f", "i", "d", "e", "n", "c", "e", "\"", ":", " ", "0", ".", "5", "}">>,
      <<"{", "\"", "v", "a", "r", "i", "a", "b", "l", "e", "s", "\"", ":", " ", "[", "\"", "z", "\"", "]", ",", " ", "\"", "c", "o", "n", "f", "i", "d", "e", "n", "c", "e", "\"", ":", " ", "0", ".", "3", "}">>,
      <<"{", "\"", "v", "a", "r", "i", "a", "b", "l", "e", "s", "\"", ":", " ", "[", "\"", "z", "\"", "]", "}">>,
      \* one name in two buckets
      <<"{", "\"", "v", "a", "r", "i", "a", "b", "l", "e", "s", "\"", ":", " ", "{", "\"", "x", "\"", ":", " ", "{", "}", "}", ",", " ", "\"", "f", "u", "n", "c", "t", "i", "o", "n", "s", "\"", ":", " ", "[", "\"", "x", "\"", "]", ",", " ", "\"", "c", "o", "n", "f", "i", "d", "e", "n", "c", "e", "\"", ":", " ", "0", ".", "8", "}">>,
      \* no structured data at all
      <<"n", "o", " ", "j", "s", "o", "n">>
    }

\* an answer that locates the definition of z in the first fragment
ContextAnswers ==
    {<<"{", "\"", "v", "a", "r", "i", "a", "b", "l", "e", "s", "\"", ":", " ", "{", "\"", "z", "\"", ":", " ", "{", "\"", "d", "e", "f", "i", "n", "e", "d", "_", "i", "n", "_", "s", "n", "i", "p", "p", "e", "t", "\"", ":", " ", "0", ",", " ", "\"", "d", "e", "f", "i", "n", "i", "t", "i", "o", "n", "\"", ":", " ", "\"", "z", " ", "=", " ", "2", "\"", "}", "}", ",", " ", "\"", "c", "o", "n", "f", "i", "d", "e", "n", "c", "e", "\"", ":", " ", "0", ".", "9", "}">>}

ParseTable == [t \in Texts \cup Answers \cup ContextAnswers |-> parse(t)]

\* parse(t), read from the table for the texts of the model
Parsed(t) == IF t \in DOMAIN ParseTable THEN ParseTable[t] ELSE parse(t)

(***************************************************************************)
(* snippets/agents/base_agent.py and context_analyzer.py: dependency maps  *)
(* A bucket is the sequence of the <<name, entry>> items of a dict, in     *)
(* insertion order; names are texts and entries are decoded values.  A     *)
(* message (an exception's str, an error field) is a sequence of its       *)
(* parts, <<>> for None.                                                   *)
(***************************************************************************)
K_variable_dependencies == <<"v", "a", "r", "i", "a", "b", "l", "e", "_", "d", "e", "p", "e", "n", "d", "e", "n", "c", "i", "e", "s">>

K_class_dependencies == <<"c", "l", "a", "s", "s", "_", "d", "e", "p", "e", "n", "d", "e", "n", "c", "i", "e", "s">>

K_import_dependencies == <<"i", "m", "p", "o", "r", "t", "_", "d", "e", "p", "e", "n", "d", "e", "n", "c", "i", "e", "s">>

K_function_dependencies == <<"f", "u", "n", "c", "t", "i", "o", "n", "_", "d", "e", "p", "e", "n", "d", "e", "n", "c", "i", "e", "s">>

K_overall_confidence == <<"o", "v", "e", "r", "a", "l", "l", "_", "c", "o", "n", "f", "i", "d", "e", "n", "c", "e">>

K_analysis_confidence == <<"a", "n", "a", "l", "y", "s", "i", "s", "_", "c", "o", "n", "f", "i", "d", "e", "n", "c", "e">>

K_type == <<"t", "y", "p", "e">>

K_unknown == <<"u", "n", "k", "n", "o", "w", "n">>

K_module == <<"m", "o", "d", "u", "l", "e">>

K_function == <<"f", "u", "n", "c", "t", "i", "o", "n">>

K_defined_in_snippet == <<"d", "e", "f", "i", "n", "e", "d", "_", "i", "n", "_", "s", "n", "i", "p", "p", "e", "t">>

K_definition == <<"d", "e", "f", "i", "n", "i", "t", "i", "o", "n">>

K_unknown_definition == <<"#", " ", "U", "n", "k", "n", "o", "w", "n", " ", "d", "e", "f", "i", "n", "i", "t", "i", "o", "n", " ", "f", "o", "r", ":", " ">>

\* DependencyMap(...), pydantic model with 0 <= confidence <= 1
DependencyMap(variables, classes, imports, functions, confidence, error) ==
    [variables |-> variables, classes |-> classes, imports |-> imports,
     functions |-> functions, confidence |-> confidence, error |-> error]

\* DependencyMap(confidence=c, error=e)
EmptyMap(confidence, error) == DependencyMap(<<>>, <<>>, <<>>, <<>>, confidence, error)

\* dict.get(key, default) on the members of a decoded object
JGet(o, key, default) ==
    IF \E m \in 1..Len(o) : o[m][1] = key
    THEN o[CHOOSE m \in 1..Len(o) : o[m][1] = key][2]
    ELSE default

\* {item: entry for item in items}: a repeated item keeps its first place
RECURSIVE FromList(_, _, _)
FromList(items, entry, acc) ==
    IF items = <<>> THEN acc
    ELSE FromList(Tail(items), entry, SetDefault(acc, Head(items).s, entry))

ListEntryOf(type) == JObj(<<<<K_confidence, JNum(7)>>, <<K_type, JStr(type)>>>>)

\* a bucket from the decoded value v: a list of names becomes a dict, a dict
\* of dicts is taken as it is, anything else does not make a DependencyMap
\* (TypeError for an unhashable item, pydantic's ValidationError otherwise)
AsBucket(v, type) ==
    IF v.k = "arr" /\ \A m \in 1..Len(v.a) : v.a[m].k = "str"
    THEN [ok |-> TRUE, b |-> FromList(v.a, ListEntryOf(type), <<>>)]
    ELSE IF v.k = "obj" /\ \A m \in 1..Len(v.o) : v.o[m][2].k = "obj"
    THEN [ok |-> TRUE, b |-> v.o]
    ELSE [ok |-> FALSE, b |-> <<>>]

\* float(confidence) if confidence is not None else 0.5, in tenths; -1 when
\* float raises (strings are modelled as far as they are digits and dots)
AsConfidence(c) ==
    CASE c.k = "null" -> 5
      [] c.k = "num" -> c.n
      [] c.k = "bool" -> 10 * c.n
      [] c.k = "str" -> IF c.s # <<>> /\ \A m \in 1..Len(c.s) : c.s[m] \in Digits \cup {"."}
                        THEN FloatOf(c.s) ELSE -1
      [] OTHER -> -1

ProcessingFailed == EmptyMap(0, <<"Response processing failed">>)

MapOf(variables, classes, imports, functions, confidence) ==
    IF /\ variables.ok /\ classes.ok /\ imports.ok /\ functions.ok
       /\ confidence >= 0 /\ confidence <= 10
    THEN DependencyMap(variables.b, classes.b, imports.b, functions.b, confidence, <<>>)
    ELSE ProcessingFailed

\* the body of the try block of _parse_llm_response for the parsed object o
MapOfObject(o) ==
    MapOf(AsBucket(JGet(o, K_variables, JGet(o, K_variable_dependencies, JObj(<<>>))),
                   K_unknown),
          AsBucket(JGet(o, K_classes, JGet(o, K_class_dependencies, JObj(<<>>))),
                   K_unknown),
          AsBucket(JGet(o, K_imports, JGet(o, K_import_dependencies, JObj(<<>>))),
                   K_module),
          AsBucket(JGet(o, K_functions, JGet(o, K_function_dependencies, JObj(<<>>))),
                   K_function),
          AsConfidence(JGet(o, K_confidence,
                            JGet(o, K_overall_confidence,
                                 JGet(o, K_analysis_confidence, JNum(5))))))

\* _parse_llm_response after self.json_parser.parse did what `parsed` says
MapOfParsed(parsed) ==
    IF parsed.raised
    THEN EmptyMap(0, <<"Robust JSON parsing failed: ", parsed.error>>)
    ELSE IF parsed.value.k # "obj" THEN ProcessingFailed
    ELSE MapOfObject(parsed.value.o)

\* ContextAnalyzer._parse_llm_response
_parse_llm_response(llm_content) == MapOfParsed(Parsed(llm_content))

SyntaxTrees ==
    <<
      \* y = z + 1
      [content |-> <<"y", " ", "=", " ", "z", " ", "+", " ", "1">>,
       ok |-> TRUE, load |-> {<<"z">>}, store |-> {<<"y">>},
       funcs |-> {}, classes |-> {}, defs |-> {<<"y">>}],
      \* print(len(x))
      [content |-> <<"p", "r", "i", "n", "t", "(", "l", "e", "n", "(", "x", ")", ")">>,
       ok |-> TRUE, load |-> {<<"l", "e", "n">>, <<"p", "r", "i", "n", "t">>, <<"x">>}, store |-> {},
       funcs |-> {}, classes |-> {}, defs |-> {}],
      \* def f(:
      [content |-> <<"d", "e", "f", " ", "f", "(", ":">>,
       ok |-> FALSE, load |-> {}, store |-> {},
       funcs |-> {}, classes |-> {}, defs |-> {}],
      \* z = 2
      [content |-> <<"z", " ", "=", " ", "2">>,
       ok |-> TRUE, load |-> {}, store |-> {<<"z">>},
       funcs |-> {}, classes |-> {}, defs |-> {<<"z">>}],
      \* @timer\ndef f(): pass
      [content |-> <<"@", "t", "i", "m", "e", "r", "\n", "d", "e", "f", " ", "f", "(", ")", ":", " ", "p", "a", "s", "s">>,
       ok |-> TRUE, load |-> {<<"t", "i", "m", "e", "r">>}, store |-> {},
       funcs |-> {<<"f">>}, classes |-> {}, defs |-> {<<"f">>}],
      \* pd.head()
      [content |-> <<"p", "d", ".", "h", "e", "a", "d", "(", ")">>,
       ok |-> TRUE, load |-> {<<"p", "d">>}, store |-> {},
       funcs |-> {}, classes |-> {}, defs |-> {}],
      \* @app.route("/")\ndef f(): pass
      [content |-> <<"@", "a", "p", "p", ".", "r", "o", "u", "t", "e", "(", "\"", "/", "\"", ")", "\n", "d", "e", "f", " ", "f", "(", ")", ":", " ", "p", "a", "s", "s">>,
       ok |-> TRUE, load |-> {<<"a", "p", "p">>}, store |-> {},
       funcs |-> {<<"f">>}, classes |-> {}, defs |-> {<<"f">>}],
      \* import os\nprint(os.getcwd())
      [content |-> <<"i", "m", "p", "o", "r", "t", " ", "o", "s", "\n", "p", "r", "i", "n", "t", "(", "o", "s", ".", "g", "e", "t", "c", "w", "d", "(", ")", ")">>,
       ok |-> TRUE, load |-> {<<"o", "s">>, <<"p", "r", "i", "n", "t">>}, store |-> {},
       funcs |-> {}, classes |-> {}, defs |-> {<<"o", "s">>}]
    >>

\* ast.parse(content) and what ast.walk collects from the tree
ast_parse(content) ==
    SyntaxTrees[CHOOSE m \in 1..Len(SyntaxTrees) : SyntaxTrees[m].content = content]

\* the names the fallback never reports
FallbackBuiltins ==
    {<<"p", "r", "i", "n", "t">>, <<"l", "e", "n">>, <<"r", "a", "n", "g", "e">>,
     <<"s", "t", "r">>, <<"i", "n", "t">>, <<"f", "l", "o", "a", "t">>,
     <<"l", "i", "s", "t">>, <<"d", "i", "c", "t">>}

\* for var in a set: the order of iteration is some order
RECURSIVE Iterate(_)
Iterate(S) ==
    IF S = {} THEN <<>>
    ELSE LET x == CHOOSE y \in S : TRUE IN <<x>> \o Iterate(S \ {x})

FallbackEntry(var) ==
    JObj(<<<<K_defined_in_snippet, JNull>>,
           <<K_definition, JStr(K_unknown_definition \o var)>>,
           <<K_type, JStr(K_unknown)>>,
           <<K_confidence, JNum(3)>>>>)

FallbackVariables(names) == [m \in 1..Len(names) |-> <<names[m], FallbackEntry(names[m])>>]

MapOfTree(tree) ==
    IF ~tree.ok THEN EmptyMap(0, <<"Both LLM and AST analysis failed">>)
    ELSE DependencyMap(
            FallbackVariables(Iterate((tree.load \ (tree.store \cup tree.funcs \cup tree.classes))
                                        \ FallbackBuiltins)),
            <<>>, <<>>, <<>>, 3, <<"LLM failed, using AST fallback">>)

\* ContextAnalyzer._analyze_with_ast_fallback
_analyze_with_ast_fallback(snippet) == MapOfTree(ast_parse(snippet.content))

(***************************************************************************)
(* snippets/agents/llm_client.py: GroqLLMClient.  Costs are counted in     *)
(* units of 0.05 micro-dollars: a prompt word is estimated at 1.5 tokens   *)
(* and a thousand tokens of the default model cost 0.0001 dollars, so a    *)
(* word is estimated at 3 units and a token costs 2.  Token counts are     *)
(* multiples of ten, for which round(cost, 6) changes nothing.             *)
(***************************************************************************)
\* LLMConfig.max_cost_per_session of the modelled client, in cost units
max_cost_per_session == 300

\* no call, no value
NoCall == [none |-> TRUE]

\* len(text.split())
WordCount(t) ==
    Cardinality({i \in 1..Len(t) :
                    t[i] \notin Whitespace /\ (i = 1 \/ t[i - 1] \in Whitespace)})

\* the words _format_context_for_llm writes for one fragment of the context:
\* "## Snippet <idx> <marker>", "```python", the content, "```"
ContextWords(c) == 5 + (IF c.is_target THEN 3 ELSE 1) + WordCount(c.content)

RECURSIVE SumWords(_)
SumWords(cs) == IF cs = <<>> THEN 0 ELSE ContextWords(Head(cs)) + SumWords(Tail(cs))

\* len(prompt.split()) for the analyzer's built-in template, which has 14
\* words of its own
PromptWords(target_snippet, context_snippets) ==
    14 + WordCount(target_snippet) + SumWords(context_snippets)

\* estimated_tokens / 1000 * PRICING[model]; a prompt carries the number of
\* its words
EstimatedCost(prompt) == 3 * prompt.words

\* GroqLLMClient._calculate_cost
_calculate_cost(total_tokens) == 2 * total_tokens

\* the limit checked against the session's cost alone
CheckSessionCostOnly(client, estimated_cost) ==
    ~(client.session_cost > max_cost_per_session)

\* GroqLLMClient._check_cost_limit
_check_cost_limit(client, estimated_cost) ==
    ~(client.session_cost + estimated_cost > max_cost_per_session)

\* LLMConfig.model
model == "llama-3.1-8b-instant"

\* LLMConfig.temperature, in tenths
temperature == 1

\* LLMConfig.max_tokens
max_tokens == 1000

\* GroqLLMClient._generate_cache_key: the data whose serialization, keys
\* sorted, is digested: prompt, model, temperature, max_tokens and the keyword
\* arguments, of which generate passes system=.  Two keys are equal when
\* these data are.
_generate_cache_key(prompt, system) ==
    [max_tokens |-> max_tokens, model |-> model, prompt |-> prompt, system |-> system,
     temperature |-> temperature]

\* GroqLLMClient._load_from_cache
_load_from_cache(client, cache_key) == {e \in client.cache : e.key = cache_key}

\* what a call of generate did: the LLMResponse it returned or the exception
\* it raised, the client after it, and whether a request went out
Generated(client, content, total_tokens, cached, requested) ==
    [raised |-> FALSE, error |-> <<>>, timed_out |-> FALSE, content |-> content,
     total_tokens |-> total_tokens, cached |-> cached, client |-> client,
     requested |-> requested]

GenerateRaised(client, error, timed_out, requested) ==
    [raised |-> TRUE, error |-> error, timed_out |-> timed_out, content |-> <<>>,
     total_tokens |-> 0, cached |-> FALSE, client |-> client, requested |-> requested]

FromCache(client, e) == Generated(client, e.content, e.total_tokens, TRUE, FALSE)

\* the request succeeded: the counters are updated and the answer is
\* written to the file of its key
Answered(client, cache_key, net) ==
    Generated([session_cost |-> client.session_cost + _calculate_cost(net.total_tokens),
               session_requests |-> client.session_requests + 1,
               cache |-> {e \in client.cache : e.key # cache_key} \cup
                            {[key |-> cache_key, content |-> net.content,
                              total_tokens |-> net.total_tokens]}],
              net.content, net.total_tokens, FALSE, TRUE)

\* generate from the point where _make_groq_request returns or raises
AfterRequest(client, cache_key, net) ==
    IF net.kind = "ok" THEN Answered(client, cache_key, net)
    ELSE IF net.kind = "timeout" THEN GenerateRaised(client, <<>>, TRUE, TRUE)
    ELSE GenerateRaised(client, <<"Groq API error">>, FALSE, TRUE)

\* generate with the cost limit checked before the cache is read
GenerateCostFirst(client, prompt, system_message, net) ==
    LET cache_key == _generate_cache_key(prompt, system_message)
        cached_data == _load_from_cache(client, cache_key)
    IN IF ~_check_cost_limit(client, EstimatedCost(prompt))
       THEN GenerateRaised(client, <<"Request would exceed cost limit of $",
                                     "max_cost_per_session">>, FALSE, FALSE)
       ELSE IF cached_data # {} THEN FromCache(client, CHOOSE e \in cached_data : TRUE)
       ELSE AfterRequest(client, cache_key, net)

\* GroqLLMClient.generate, run to its end; net is what the network does with
\* the request if one goes out (an answer, an error after the request's own
\* retries, or no answer before the caller's timeout)
generate(client, prompt, system_message, net) ==
    LET cache_key == _generate_cache_key(prompt, system_message)
        cached_data == _load_from_cache(client, cache_key)
    IN IF cached_data # {} THEN FromCache(client, CHOOSE e \in cached_data : TRUE)
       ELSE IF ~_check_cost_limit(client, EstimatedCost(prompt))
       THEN GenerateRaised(client, <<"Request would exceed cost limit of $",
                                     "max_cost_per_session">>, FALSE, FALSE)
       ELSE AfterRequest(client, cache_key, net)

(***************************************************************************)
(* snippets/agents/base_agent.py: BaseAgent                                *)
(***************************************************************************)
\* BaseAgent.max_retries as ContextAnalyzer.__init__ sets it
max_retries == 3

\* the error of attempt number `attempt` when the coroutine's one run failed
\* with first: a coroutine object runs once, so every later await of it
\* raises RuntimeError
AttemptError(first, attempt) ==
    IF attempt > 1 THEN <<"cannot reuse already awaited coroutine">>
    ELSE IF first.timed_out THEN <<"Timeout after 30.0s">>
    ELSE first.error

\* BaseAgent._with_timeout_and_retry(coro), where first is what the
\* coroutine's run did
_with_timeout_and_retry(first) ==
    IF ~first.raised THEN first
    ELSE [first EXCEPT !.error = <<"All 3 attempts failed. Last error: ">>
                                    \o AttemptError(first, max_retries)]

\* AgentResult(...)
AgentResult(success, data, confidence, error, metadata) ==
    [success |-> success, data |-> data, confidence |-> confidence, error |-> error,
     metadata |-> metadata]

\* BaseAgent._create_fallback_result
_create_fallback_result(error_msg) ==
    AgentResult(FALSE, <<>>, 0, error_msg,
                [fallback |-> TRUE, agent |-> "ContextAnalyzer"])

\* BaseAgent._validate_inputs: the message of the ValueError, <<>> when valid
_validate_inputs(snippet, all_snippets, snippet_index) ==
    IF snippet_index < 0 THEN <<"snippet_index must be non-negative integer">>
    ELSE IF snippet_index >= Len(all_snippets) THEN <<"snippet_index out of range">>
    ELSE IF all_snippets[snippet_index + 1].index # snippet.index
    THEN <<"Snippet index mismatch">>
    ELSE <<>>

(***************************************************************************)
(* snippets/agents/precision_filter.py: PrecisionFilter.  The entries the  *)
(* filter is given carry a number as their confidence, or none.            *)
(***************************************************************************)
\* PrecisionFilter._load_python_builtins
builtin_names ==
    {
     <<"a", "b", "s">>, <<"a", "l", "l">>, <<"a", "n", "y">>,
     <<"a", "s", "c", "i", "i">>, <<"b", "i", "n">>, <<"b", "o", "o", "l">>,
     <<"b", "y", "t", "e", "a", "r", "r", "a", "y">>, <<"b", "y", "t", "e", "s">>, <<"c", "a", "l", "l", "a", "b", "l", "e">>,
     <<"c", "h", "r">>, <<"c", "l", "a", "s", "s", "m", "e", "t", "h", "o", "d">>, <<"c", "o", "m", "p", "i", "l", "e">>,
     <<"c", "o", "m", "p", "l", "e", "x">>, <<"d", "e", "l", "a", "t", "t", "r">>, <<"d", "i", "c", "t">>,
     <<"d", "i", "r">>, <<"d", "i", "v", "m", "o", "d">>, <<"e", "n", "u", "m", "e", "r", "a", "t", "e">>,
     <<"e", "v", "a", "l">>, <<"e", "x", "e", "c">>, <<"f", "i", "l", "t", "e", "r">>,
     <<"f", "l", "o", "a", "t">>, <<"f", "o", "r", "m", "a", "t">>, <<"f", "r", "o", "z", "e", "n", "s", "e", "t">>,
     <<"g", "e", "t", "a", "t", "t", "r">>, <<"g", "l", "o", "b", "a", "l", "s">>, <<"h", "a", "s", "a", "t", "t", "r">>,
     <<"h", "a", "s", "h">>, <<"h", "e", "l", "p">>, <<"h", "e", "x">>,
     <<"i", "d">>, <<"i", "n", "p", "u", "t">>, <<"i", "n", "t">>,
     <<"i", "s", "i", "n", "s", "t", "a", "n", "c", "e">>, <<"i", "s", "s", "u", "b", "c", "l", "a", "s", "s">>, <<"i", "t", "e", "r">>,
     <<"l", "e", "n">>, <<"l", "i", "s", "t">>, <<"l", "o", "c", "a", "l", "s">>,
     <<"m", "a", "p">>, <<"m", "a", "x">>, <<"m", "e", "m", "o", "r", "y", "v", "i", "e", "w">>,
     <<"m", "i", "n">>, <<"n", "e", "x", "t">>, <<"o", "b", "j", "e", "c", "t">>,
     <<"o", "c", "t">>, <<"o", "p", "e", "n">>, <<"o", "r", "d">>,
     <<"p", "o", "w">>, <<"p", "r", "i", "n", "t">>, <<"p", "r", "o", "p", "e", "r", "t", "y">>,
     <<"r", "a", "n", "g", "e">>, <<"r", "e", "p", "r">>, <<"r", "e", "v", "e", "r", "s", "e", "d">>,
     <<"r", "o", "u", "n", "d">>, <<"s", "e", "t">>, <<"s", "e", "t", "a", "t", "t", "r">>,
     <<"s", "l", "i", "c", "e">>, <<"s", "o", "r", "t", "e", "d">>, <<"s", "t", "a", "t", "i", "c", "m", "e", "t", "h", "o", "d">>,
     <<"s", "t", "r">>, <<"s", "u", "m">>, <<"s", "u", "p", "e", "r">>,
     <<"t", "u", "p", "l", "e">>, <<"t", "y", "p", "e">>, <<"v", "a", "r", "s">>,
     <<"z", "i", "p">>, <<"E", "x", "c", "e", "p", "t", "i", "o", "n">>, <<"V", "a", "l", "u", "e", "E", "r", "r", "o", "r">>,
     <<"T", "y", "p", "e", "E", "r", "r", "o", "r">>, <<"K", "e", "y", "E", "r", "r", "o", "r">>, <<"I", "n", "d", "e", "x", "E", "r", "r", "o", "r">>,
     <<"A", "t", "t", "r", "i", "b", "u", "t", "e", "E", "r", "r", "o", "r">>, <<"I", "m", "p", "o", "r", "t", "E", "r", "r", "o", "r">>, <<"R", "u", "n", "t", "i", "m", "e", "E", "r", "r", "o", "r">>,
     <<"S", "t", "o", "p", "I", "t", "e", "r", "a", "t", "i", "o", "n">>, <<"T", "r", "u", "e">>, <<"F", "a", "l", "s", "e">>,
     <<"N", "o", "n", "e">>, <<"_", "_", "n", "a", "m", "e", "_", "_">>, <<"_", "_", "m", "a", "i", "n", "_", "_">>,
     <<"_", "_", "d", "e", "b", "u", "g", "_", "_">>
    }

\* common_patterns['dunder_methods']
dunder_methods ==
    {<<"_", "_", "i", "n", "i", "t", "_", "_">>, <<"_", "_", "s", "t", "r", "_", "_">>,
     <<"_", "_", "r", "e", "p", "r", "_", "_">>, <<"_", "_", "l", "e", "n", "_", "_">>,
     <<"_", "_", "i", "t", "e", "r", "_", "_">>}

Categories == <<"variables", "classes", "imports", "functions">>

\* a rule's name is the sequence of its parts: <<"custom_", name>> for a custom rule
FilterRule(name, confidence_threshold, applies_to) ==
    [name |-> name, confidence_threshold |-> confidence_threshold,
     applies_to |-> applies_to, enabled |-> TRUE]

\* the rules with a minimum confidence that leaves the imports alone
RulesSparingImports ==
    << FilterRule(<<"builtin_filter">>, 0, {"variables", "functions"}),
       FilterRule(<<"single_letter_variables">>, 7, {"variables"}),
       FilterRule(<<"dunder_methods">>, 8, {"functions"}),
       FilterRule(<<"self_parameter">>, 0, {"variables"}),
       FilterRule(<<"local_definitions">>, 9, {"variables", "functions", "classes"}),
       FilterRule(<<"low_confidence">>, 3, {"variables", "classes", "functions"}) >>

\* PrecisionFilter._initialize_filter_rules
_initialize_filter_rules ==
    << FilterRule(<<"builtin_filter">>, 0, {"variables", "functions"}),
       FilterRule(<<"single_letter_variables">>, 7, {"variables"}),
       FilterRule(<<"dunder_methods">>, 8, {"functions"}),
       FilterRule(<<"self_parameter">>, 0, {"variables"}),
       FilterRule(<<"local_definitions">>, 9, {"variables", "functions", "classes"}),
       FilterRule(<<"low_confidence">>, 3, {"variables", "classes", "imports", "functions"}) >>

\* name.startswith('__') and name.endswith('__')
IsDunder(name) ==
    /\ Len(name) >= 2
    /\ name[1] = "_" /\ name[2] = "_"
    /\ name[Len(name) - 1] = "_" /\ name[Len(name)] = "_"

\* PrecisionFilter._apply_filter_rule: should_filter, for an entry of the
\* given confidence; a rule of another name filters nothing
ShouldFilter(rule, name, confidence, category, local_definitions) ==
    CASE rule.name = <<"builtin_filter">> -> name \in builtin_names
      [] rule.name = <<"single_letter_variables">> ->
            category = "variables" /\ Len(name) = 1 /\ confidence < rule.confidence_threshold
      [] rule.name = <<"dunder_methods">> ->
            /\ category = "functions" /\ IsDunder(name)
            /\ name \in dunder_methods /\ confidence < rule.confidence_threshold
      [] rule.name = <<"self_parameter">> ->
            category = "variables" /\ name = <<"s", "e", "l", "f">>
      [] rule.name = <<"local_definitions">> ->
            name \in local_definitions /\ confidence > rule.confidence_threshold
      [] rule.name = <<"low_confidence">> -> confidence < rule.confidence_threshold
      [] OTHER -> FALSE

\* PrecisionFilter._apply_filter_rule
_apply_filter_rule(rule, name, details, category, snippet_content, local_definitions) ==
    ShouldFilter(rule, name, JGet(details.o, K_confidence, JNum(5)).n, category,
                 local_definitions)

\* the loop over self.filter_rules of _filter_category for one item
KeepItem(rules, item, category, snippet_content, local_definitions) ==
    \A m \in 1..Len(rules) :
        (rules[m].enabled /\ category \in rules[m].applies_to) =>
            ~_apply_filter_rule(rules[m], item[1], item[2], category, snippet_content,
                                local_definitions)

\* PrecisionFilter._filter_category
_filter_category(rules, items, category, snippet_content, local_definitions) ==
    SelectSeq(items, LAMBDA item :
                  KeepItem(rules, item, category, snippet_content, local_definitions))

\* s.split(sep) for a one-character separator
RECURSIVE SplitOn(_, _, _)
SplitOn(t, sep, cur) ==
    IF t = <<>> THEN <<cur>>
    ELSE IF Head(t) = sep THEN <<cur>> \o SplitOn(Tail(t), sep, <<>>)
    ELSE SplitOn(Tail(t), sep, Append(cur, Head(t)))

\* the definition patterns of the regex fallback
DefinitionPatterns ==
    << RSeq(<<RBeg, RGrp(1, RPlus(RChr(WordChars))), RStar(RChr(Whitespace)), RChr({"="})>>),
       RSeq(<<RBeg, RLit(<<"d", "e", "f">>), RPlus(RChr(Whitespace)),
              RGrp(1, RPlus(RChr(WordChars)))>>),
       RSeq(<<RBeg, RLit(<<"c", "l", "a", "s", "s">>), RPlus(RChr(Whitespace)),
              RGrp(1, RPlus(RChr(WordChars)))>>),
       RSeq(<<RBeg, RLit(<<"i", "m", "p", "o", "r", "t">>), RPlus(RChr(Whitespace)),
              RGrp(1, RPlus(RChr(WordChars)))>>),
       RSeq(<<RBeg, RLit(<<"f", "r", "o", "m">>), RPlus(RChr(Whitespace)),
              RPlus(RChr(WordChars)), RPlus(RChr(Whitespace)),
              RLit(<<"i", "m", "p", "o", "r", "t">>), RPlus(RChr(Whitespace)),
              RGrp(1, RPlus(RChr(WordChars)))>>) >>

MatchedName(line, match) == IF match.found THEN {Group(line, match, 1)} ELSE {}

\* the names the patterns define on one stripped line
LineDefinitions(line) ==
    UNION {MatchedName(line, re_match(DefinitionPatterns[p], line)) :
              p \in 1..Len(DefinitionPatterns)}

RegexDefinitions(lines) == UNION {LineDefinitions(Strip(lines[m])) : m \in 1..Len(lines)}

LocalDefinitionsOf(tree, snippet_content) ==
    IF tree.ok THEN tree.defs ELSE RegexDefinitions(SplitOn(snippet_content, "\n", <<>>))

\* PrecisionFilter._extract_local_definitions
_extract_local_definitions(snippet_content) ==
    LocalDefinitionsOf(ast_parse(snippet_content), snippet_content)

CountOf(map) ==
    Len(map.variables) + Len(map.classes) + Len(map.imports) + Len(map.functions)

\* the adjustment with a filter_ratio of 0.7 counted as much filtering
AdjustedFromSeventy(confidence, original_count, filtered_count) ==
    IF original_count > 0 /\ filtered_count * 10 <= 7 * original_count
    THEN Min(10, confidence + 1)
    ELSE confidence

\* the confidence adjustment: filter_ratio < 0.7 raises it by 0.1
AdjustedConfidence(confidence, original_count, filtered_count) ==
    IF original_count > 0 /\ filtered_count * 10 < 7 * original_count
    THEN Min(10, confidence + 1)
    ELSE confidence

Adjusted(dependency_map, filtered_map) ==
    [filtered_map EXCEPT !.confidence =
        AdjustedConfidence(@, CountOf(dependency_map), CountOf(filtered_map))]

FilteredWith(rules, dependency_map, snippet_content, local_definitions) ==
    Adjusted(dependency_map,
             DependencyMap(
                _filter_category(rules, dependency_map.variables, "variables",
                                 snippet_content, local_definitions),
                _filter_category(rules, dependency_map.classes, "classes",
                                 snippet_content, local_definitions),
                _filter_category(rules, dependency_map.imports, "imports",
                                 snippet_content, local_definitions),
                _filter_category(rules, dependency_map.functions, "functions",
                                 snippet_content, local_definitions),
                dependency_map.confidence, dependency_map.error))

\* PrecisionFilter.filter_dependencies, with self.filter_rules = rules
filter_dependencies(rules, dependency_map, snippet_content) ==
    FilteredWith(rules, dependency_map, snippet_content,
                 _extract_local_definitions(snippet_content))

(***************************************************************************)
(* snippets/agents/enhanced_analyzer.py: EnhancedContextAnalyzer, and      *)
(* improved_context_analyzer.py: ImprovedContextAnalyzer                   *)
(***************************************************************************)
Lowercase == <<"a", "b", "c", "d", "e", "f", "g", "h", "i", "j", "k", "l", "m",
               "n", "o", "p", "q", "r", "s", "t", "u", "v", "w", "x", "y", "z">>

Uppercase == <<"A", "B", "C", "D", "E", "F", "G", "H", "I", "J", "K", "L", "M",
               "N", "O", "P", "Q", "R", "S", "T", "U", "V", "W", "X", "Y", "Z">>

\* the character c in both cases
BothCases(c) ==
    {c} \cup {Uppercase[m] : m \in {n \in 1..26 : Lowercase[n] = c}}
        \cup {Lowercase[m] : m \in {n \in 1..26 : Uppercase[n] = c}}

\* the literal w under re.IGNORECASE
RLitI(w) == RSeq([m \in 1..Len(w) |-> RChr(BothCases(w[m]))])

\* sub in code
Contains(code, sub) ==
    \E i \in 1..(Len(code) - Len(sub) + 1) : SubSeq(code, i, i + Len(sub) - 1) = sub

\* sep.join(parts)
RECURSIVE Join(_, _)
Join(parts, sep) ==
    IF parts = <<>> THEN <<>>
    ELSE IF Len(parts) = 1 THEN parts[1]
    ELSE parts[1] \o sep \o Join(Tail(parts), sep)

\* dict.update(other), {**bucket, **other}
RECURSIVE Update(_, _)
Update(bucket, other) ==
    IF other = <<>> THEN bucket
    ELSE Update(PutMember(bucket, Head(other)[1], Head(other)[2]), Tail(other))

\* EnhancedContextAnalyzer._load_framework_patterns, searched with re.IGNORECASE
framework_patterns ==
    <<
      [framework |-> <<"f", "l", "a", "s", "k">>,
       patterns |-> <<
            RSeq(<<RLitI(<<"@", "a", "p", "p", ".", "r", "o", "u", "t", "e">>), RStar(RChr(Whitespace)), RLit(<<"(">>)>>),
            RLitI(<<"f", "r", "o", "m", " ", "f", "l", "a", "s", "k", " ", "i", "m", "p", "o", "r", "t">>),
            RSeq(<<RLitI(<<"f", "l", "a", "s", "k">>), RStar(RChr(Whitespace)), RLit(<<"(">>)>>),
            RLitI(<<"r", "e", "q", "u", "e", "s", "t", ".">>),
            RLitI(<<"s", "e", "s", "s", "i", "o", "n", ".">>),
            RSeq(<<RLitI(<<"j", "s", "o", "n", "i", "f", "y">>), RStar(RChr(Whitespace)), RLit(<<"(">>)>>) >>],
      [framework |-> <<"d", "j", "a", "n", "g", "o">>,
       patterns |-> <<
            RLitI(<<"f", "r", "o", "m", " ", "d", "j", "a", "n", "g", "o">>),
            RLitI(<<"m", "o", "d", "e", "l", "s", ".", "m", "o", "d", "e", "l">>),
            RLitI(<<"h", "t", "t", "p", "r", "e", "s", "p", "o", "n", "s", "e">>),
            RLitI(<<"@", "r", "e", "q", "u", "i", "r", "e", "_">>),
            RSeq(<<RLitI(<<"r", "e", "n", "d", "e", "r">>), RStar(RChr(Whitespace)), RLit(<<"(">>)>>),
            RSeq(<<RLitI(<<"r", "e", "v", "e", "r", "s", "e">>), RStar(RChr(Whitespace)), RLit(<<"(">>)>>) >>],
      [framework |-> <<"f", "a", "s", "t", "a", "p", "i">>,
       patterns |-> <<
            RLitI(<<"f", "r", "o", "m", " ", "f", "a", "s", "t", "a", "p", "i">>),
            RSeq(<<RLitI(<<"@", "a", "p", "p", ".">>), RGrp(1, RAlt(<<RLitI(<<"g", "e", "t">>), RLitI(<<"p", "o", "s", "t">>), RLitI(<<"p", "u", "t">>), RLitI(<<"d", "e", "l", "e", "t", "e">>)>>))>>),
            RSeq(<<RLitI(<<"f", "a", "s", "t", "a", "p", "i">>), RStar(RChr(Whitespace)), RLit(<<"(">>)>>),
            RSeq(<<RLitI(<<"d", "e", "p", "e", "n", "d", "s">>), RStar(RChr(Whitespace)), RLit(<<"(">>)>>),
            RLitI(<<"h", "t", "t", "p", "e", "x", "c", "e", "p", "t", "i", "o", "n">>) >>],
      [framework |-> <<"p", "a", "n", "d", "a", "s">>,
       patterns |-> <<
            RLitI(<<"i", "m", "p", "o", "r", "t", " ", "p", "a", "n", "d", "a", "s", " ", "a", "s", " ", "p", "d">>),
            RLitI(<<"p", "d", ".">>),
            RSeq(<<RLitI(<<"d", "a", "t", "a", "f", "r", "a", "m", "e">>), RStar(RChr(Whitespace)), RLit(<<"(">>)>>),
            RSeq(<<RLitI(<<".", "r", "e", "a", "d", "_", "c", "s", "v">>), RStar(RChr(Whitespace)), RLit(<<"(">>)>>),
            RSeq(<<RLitI(<<".", "g", "r", "o", "u", "p", "b", "y">>), RStar(RChr(Whitespace)), RLit(<<"(">>)>>),
            RSeq(<<RLitI(<<".", "m", "e", "r", "g", "e">>), RStar(RChr(Whitespace)), RLit(<<"(">>)>>) >>],
      [framework |-> <<"n", "u", "m", "p", "y">>,
       patterns |-> <<
            RLitI(<<"i", "m", "p", "o", "r", "t", " ", "n", "u", "m", "p", "y", " ", "a", "s", " ", "n", "p">>),
            RLitI(<<"n", "p", ".">>),
            RSeq(<<RLitI(<<"n", "p", ".", "a", "r", "r", "a", "y">>), RStar(RChr(Whitespace)), RLit(<<"(">>)>>),
            RSeq(<<RLitI(<<"n", "p", ".", "z", "e", "r", "o", "s">>), RStar(RChr(Whitespace)), RLit(<<"(">>)>>),
            RSeq(<<RLitI(<<"n", "p", ".", "o", "n", "e", "s">>), RStar(RChr(Whitespace)), RLit(<<"(">>)>>) >>],
      [framework |-> <<"s", "q", "l", "a", "l", "c", "h", "e", "m", "y">>,
       patterns |-> <<
            RLitI(<<"f", "r", "o", "m", " ", "s", "q", "l", "a", "l", "c", "h", "e", "m", "y">>),
            RSeq(<<RLitI(<<"c", "o", "l", "u", "m", "n">>), RStar(RChr(Whitespace)), RLit(<<"(">>)>>),
            RSeq(<<RLitI(<<"r", "e", "l", "a", "t", "i", "o", "n", "s", "h", "i", "p">>), RStar(RChr(Whitespace)), RLit(<<"(">>)>>),
            RLitI(<<"s", "e", "s", "s", "i", "o", "n", ".">>),
            RLitI(<<"b", "a", "s", "e", ".">>) >>]
    >>

DecoratorLine == RSeq(<<RBegM, RLit(<<"@">>), RPlus(RChr(WordChars))>>)

MultipleInheritance == RSeq(<<RLit(<<"c", "l", "a", "s", "s">>), RPlus(RChr(Whitespace)), RPlus(RChr(WordChars)), RStar(RChr(Whitespace)), RLit(<<"(">>), RStar(RNot({")"})), RLit(<<",">>)>>)

ContextManager == RSeq(<<RWordB, RLit(<<"w", "i", "t", "h">>), RPlus(RChr(Whitespace)), RPlus(RChr(WordChars))>>)

ListComprehension == RSeq(<<RLit(<<"[">>), RStar(RNot({"]"})), RLit(<<"f", "o", "r">>), RPlus(RChr(Whitespace)), RPlus(RChr(WordChars)), RPlus(RChr(Whitespace)), RLit(<<"i", "n">>)>>)

DictComprehension == RSeq(<<RLit(<<"{">>), RStar(RNot({"}"})), RLit(<<"f", "o", "r">>), RPlus(RChr(Whitespace)), RPlus(RChr(WordChars)), RPlus(RChr(Whitespace)), RLit(<<"i", "n">>)>>)

FString == RSeq(<<RLit(<<"f">>), RChr({"\"", "'"}), RStar(RNot({"\"", "'"})), RLit(<<"{">>), RPlus(RNot({"}"})), RLit(<<"}">>)>>)

\* the frameworks one of whose patterns is found in all_code, in dict order
RECURSIVE DetectedFrameworks(_, _)
DetectedFrameworks(all_code, k) ==
    IF k > Len(framework_patterns) THEN <<>>
    ELSE (IF \E p \in 1..Len(framework_patterns[k].patterns) :
                re_search(framework_patterns[k].patterns[p], all_code).found
          THEN <<framework_patterns[k].framework>> ELSE <<>>)
            \o DetectedFrameworks(all_code, k + 1)

Tenths(flag, weight) == IF flag THEN weight ELSE 0

\* the double the six terms add up to: its nearest tenth, and whether the
\* double lies above (1) or below (-1) the double of that tenth; 0.2 + 0.1
\* and 0.1 + 0.1 + 0.1 are 0.30000000000000004
FloatSum(first_five, frameworks) ==
    [tenths |-> first_five + frameworks,
     ulp |-> IF first_five = 3 THEN 1
             ELSE IF first_five = 6 /\ frameworks = 3 THEN 0 - 1
             ELSE 0]

\* score > tenths / 10
Above(score, tenths) == score.tenths > tenths \/ (score.tenths = tenths /\ score.ulp > 0)

CodeComplexity(has_decorators, has_inheritance, has_context_managers, has_comprehensions,
               has_f_strings, frameworks) ==
    [has_decorators |-> has_decorators, has_inheritance |-> has_inheritance,
     has_context_managers |-> has_context_managers,
     has_comprehensions |-> has_comprehensions, has_f_strings |-> has_f_strings,
     framework_patterns |-> frameworks,
     complexity_score |->
        FloatSum(Tenths(has_decorators, 2) + Tenths(has_inheritance, 2)
                    + Tenths(has_context_managers, 1) + Tenths(has_comprehensions, 1)
                    + Tenths(has_f_strings, 1),
                 Tenths(frameworks # <<>>, 3))]

ComplexityOf(all_code) ==
    CodeComplexity(re_search(DecoratorLine, all_code).found,
                   re_search(MultipleInheritance, all_code).found,
                   re_search(ContextManager, all_code).found,
                   re_search(ListComprehension, all_code).found
                        \/ re_search(DictComprehension, all_code).found,
                   re_search(FString, all_code).found,
                   DetectedFrameworks(all_code, 1))

\* EnhancedContextAnalyzer._analyze_code_complexity
_analyze_code_complexity(snippet, context_snippets) ==
    ComplexityOf(snippet.content \o <<"\n">>
                    \o Join([m \in 1..Len(context_snippets) |-> context_snippets[m].content],
                            <<"\n">>))

K_framework == <<"f", "r", "a", "m", "e", "w", "o", "r", "k">>

FrameworkEntry(framework, type, confidence) ==
    JObj(<<<<K_defined_in_snippet, JNull>>,
           <<K_definition, JStr(<<"#", " ">> \o framework \o <<" ", "f", "r", "a", "m", "e", "w", "o", "r", "k", " ", "v", "a", "r", "i", "a", "b", "l", "e">>)>>,
           <<K_type, JStr(type)>>,
           <<K_confidence, JNum(confidence)>>,
           <<K_framework, JStr(framework)>>>>)

\* the variables _detect_framework_variables knows of each framework
FrameworkVariables ==
    << [framework |-> <<"f", "l", "a", "s", "k">>,
        variables |-> << <<<<"a", "p", "p">>, <<"F", "l", "a", "s", "k">>, 8>>, <<<<"r", "e", "q", "u", "e", "s", "t">>, <<"R", "e", "q", "u", "e", "s", "t">>, 7>>,
                         <<<<"s", "e", "s", "s", "i", "o", "n">>, <<"S", "e", "s", "s", "i", "o", "n">>, 7>> >>],
       [framework |-> <<"p", "a", "n", "d", "a", "s">>,
        variables |-> << <<<<"p", "d">>, <<"m", "o", "d", "u", "l", "e">>, 9>>, <<<<"d", "f">>, <<"D", "a", "t", "a", "F", "r", "a", "m", "e">>, 6>> >>] >>

\* the entries of one framework whose variable name occurs in the code
RECURSIVE KnownVariables(_, _, _)
KnownVariables(code, framework, known) ==
    IF known = <<>> THEN <<>>
    ELSE (IF Contains(code, Head(known)[1])
          THEN << <<Head(known)[1],
                    FrameworkEntry(framework, Head(known)[2], Head(known)[3])>> >>
          ELSE <<>>) \o KnownVariables(code, framework, Tail(known))

VariablesOf(code, framework) ==
    IF \E k \in 1..Len(FrameworkVariables) : FrameworkVariables[k].framework = framework
    THEN KnownVariables(code, framework,
            FrameworkVariables[CHOOSE k \in 1..Len(FrameworkVariables) :
                                    FrameworkVariables[k].framework = framework].variables)
    ELSE <<>>

\* EnhancedContextAnalyzer._detect_framework_variables
RECURSIVE _detect_framework_variables(_, _)
_detect_framework_variables(code, frameworks) ==
    IF frameworks = <<>> THEN <<>>
    ELSE Update(VariablesOf(code, Head(frameworks)),
                _detect_framework_variables(code, Tail(frameworks)))

DecoratorPattern == RSeq(<<RLit(<<"@">>), RGrp(1, RSeq(<<RPlus(RChr(WordChars)), RStar(RSeq(<<RLit(<<".">>), RPlus(RChr(WordChars))>>))>>))>>)

K_return_type == <<"r", "e", "t", "u", "r", "n", "_", "t", "y", "p", "e">>

K_is_decorator == <<"i", "s", "_", "d", "e", "c", "o", "r", "a", "t", "o", "r">>

DecoratorEntry(decorator) ==
    JObj(<<<<K_defined_in_snippet, JNull>>,
           <<K_definition, JStr(<<"#", " ", "D", "e", "c", "o", "r", "a", "t", "o", "r", ":", " ", "@">> \o decorator)>>,
           <<K_return_type, JStr(<<"d", "e", "c", "o", "r", "a", "t", "o", "r">>)>>,
           <<K_confidence, JNum(6)>>,
           <<K_is_decorator, JBool(TRUE)>>>>)

\* decorator.split('.')[-1]
LastPart(parts) == parts[Len(parts)]

RECURSIVE DecoratorEntries(_, _)
DecoratorEntries(decorator_matches, functions) ==
    IF decorator_matches = <<>> THEN functions
    ELSE DecoratorEntries(Tail(decorator_matches),
            PutMember(functions, LastPart(SplitOn(Head(decorator_matches), ".", <<>>)),
                      DecoratorEntry(Head(decorator_matches))))

\* EnhancedContextAnalyzer._detect_decorator_dependencies
_detect_decorator_dependencies(code) ==
    DecoratorEntries(re_findall(DecoratorPattern, code), <<>>)

\* f"{score:.2f}" of a score, which has one decimal
ScoreText(score) ==
    IF score.tenths = 10 THEN <<"1.00">> ELSE <<"0.", ToString(score.tenths), "0">>

Enhanced(base_analysis, code, complexity) ==
    DependencyMap(
        IF complexity.framework_patterns # <<>>
        THEN Update(base_analysis.variables,
                    _detect_framework_variables(code, complexity.framework_patterns))
        ELSE base_analysis.variables,
        base_analysis.classes,
        base_analysis.imports,
        IF complexity.has_decorators
        THEN Update(base_analysis.functions, _detect_decorator_dependencies(code))
        ELSE base_analysis.functions,
        IF Above(complexity.complexity_score, 3)
        THEN Min(6, base_analysis.confidence + 2)
        ELSE base_analysis.confidence,
        <<"LLM failed, using enhanced AST fallback (complexity: ">>
            \o ScoreText(complexity.complexity_score) \o <<")">>)

\* EnhancedContextAnalyzer._enhanced_ast_fallback
_enhanced_ast_fallback(snippet, all_snippets, complexity) ==
    Enhanced(_analyze_with_ast_fallback(snippet), snippet.content, complexity)

Merged(primary, secondary) ==
    DependencyMap(Update(secondary.variables, primary.variables),
                  Update(secondary.classes, primary.classes),
                  Update(secondary.imports, primary.imports),
                  Update(secondary.functions, primary.functions),
                  Max(primary.confidence, secondary.confidence),
                  IF primary.error # <<>> THEN primary.error ELSE secondary.error)

\* ImprovedContextAnalyzer._merge_dependency_maps
_merge_dependency_maps(map1, map2, prefer_higher_confidence) ==
    IF map1.confidence = 0 THEN map2
    ELSE IF map2.confidence = 0 THEN map1
    ELSE IF prefer_higher_confidence /\ map1.confidence < map2.confidence
    THEN Merged(map2, map1)
    ELSE Merged(map1, map2)

(***************************************************************************)
(* snippets/agents/context_builder.py: ContextBuilder.  The dependencies   *)
(* it is given are a decoded object: category -> name -> details.          *)
(***************************************************************************)
K_import_statement == <<"i", "m", "p", "o", "r", "t", "_", "s", "t", "a", "t", "e", "m", "e", "n", "t">>

K_optimized_context == <<"o", "p", "t", "i", "m", "i", "z", "e", "d", "_", "c", "o", "n", "t", "e", "x", "t">>

\* ContextBuilder.DANGEROUS_PATTERNS, searched with re.IGNORECASE
DANGEROUS_PATTERNS ==
    <<
      \* os\.system
      RLitI(<<"o", "s", ".", "s", "y", "s", "t", "e", "m">>),
      \* subprocess\.
      RLitI(<<"s", "u", "b", "p", "r", "o", "c", "e", "s", "s", ".">>),
      \* \beval\s*\(
      RSeq(<<RWordB, RLitI(<<"e", "v", "a", "l">>), RStar(RChr(Whitespace)), RLit(<<"(">>)>>),
      \* \bexec\s*\(
      RSeq(<<RWordB, RLitI(<<"e", "x", "e", "c">>), RStar(RChr(Whitespace)), RLit(<<"(">>)>>),
      \* __import__
      RLitI(<<"_", "_", "i", "m", "p", "o", "r", "t", "_", "_">>),
      \* open\s*\([^)]*[\'"]w[\'"]
      RSeq(<<RLitI(<<"o", "p", "e", "n">>), RStar(RChr(Whitespace)), RLit(<<"(">>), RStar(RNot({")"})), RChr({"\"", "'"}), RLitI(<<"w">>), RChr({"\"", "'"})>>),
      \* open\s*\([^)]*[\'"]a[\'"]
      RSeq(<<RLitI(<<"o", "p", "e", "n">>), RStar(RChr(Whitespace)), RLit(<<"(">>), RStar(RNot({")"})), RChr({"\"", "'"}), RLitI(<<"a">>), RChr({"\"", "'"})>>),
      \* shutil\.
      RLitI(<<"s", "h", "u", "t", "i", "l", ".">>),
      \* rmtree
      RLitI(<<"r", "m", "t", "r", "e", "e">>),
      \* remove\s*\(
      RSeq(<<RLitI(<<"r", "e", "m", "o", "v", "e">>), RStar(RChr(Whitespace)), RLit(<<"(">>)>>)
    >>

\* the problems list of _validate_context_safety: the patterns that were found
Problems(context_code) ==
    SelectSeq([p \in 1..Len(DANGEROUS_PATTERNS) |-> p],
              LAMBDA p : re_search(DANGEROUS_PATTERNS[p], context_code).found)

SafetyOf(problems) == [is_safe |-> Len(problems) = 0, problems |-> problems]

\* ContextBuilder._validate_context_safety
_validate_context_safety(context_code) == SafetyOf(Problems(context_code))

\* ast.parse(context_code) for the texts the model's inputs lead to: whether
\* it returns
PythonTexts ==
    <<
      [code |-> <<"z", " ", "=", " ", "2">>,
       ok |-> TRUE],
      [code |-> <<"i", "m", "p", "o", "r", "t", " ", "o", "s", "\n", "o", "s", ".", "s", "y", "s", "t", "e", "m", "(", "\"", "l", "s", "\"", ")">>,
       ok |-> TRUE],
      [code |-> <<"E", "v", "a", "l", " ", "(", "\"", "1", "\"", ")">>,
       ok |-> TRUE],
      [code |-> <<"d", "e", "f", " ", "g", "(">>,
       ok |-> FALSE],
      [code |-> <<"c", "o", "u", "n", "t", " ", "=", " ", "1", "0", "\n", "\n", "#", " ", "U", "n", "k", "n", "o", "w", "n", " ", "d", "e", "f", "i", "n", "i", "t", "i", "o", "n", " ", "f", "o", "r", ":", " ", "z">>,
       ok |-> TRUE],
      [code |-> <<"i", "m", "p", "o", "r", "t", " ", "o", "s", "\n", "\n", "d", "e", "f", " ", "r", "u", "n", "(", "c", ")", ":", "\n", " ", " ", " ", " ", "o", "s", ".", "s", "y", "s", "t", "e", "m", "(", "c", ")">>,
       ok |-> TRUE],
      [code |-> <<"x", " ", "=", " ", "E", "V", "A", "L", "(", "\"", "1", "\"", ")">>,
       ok |-> TRUE],
      [code |-> <<"d", "e", "f", " ", "g", "(", ")">>,
       ok |-> FALSE],
      [code |-> <<"d", "e", "f", " ", "g", "(", ")", ":", "\n", " ", " ", " ", " ", "p", "a", "s", "s">>,
       ok |-> TRUE],
      [code |-> <<"c", "l", "a", "s", "s", " ", "A", "(", ":">>,
       ok |-> FALSE],
      [code |-> <<"i", "m", "p", "o", "r", "t", " ", "o", "s", "\n", "\n", "N", "a", "m", "e", " ", "=", " ", "\"", "J", "o", "h", "n", " ", "D", "o", "e", "\"", "\n", "\n", "w", " ", "=", " ", "[", "1", ",", " ", "2", ",", " ", "3", "]">>,
       ok |-> TRUE],
      [code |-> <<"i", "m", "p", "o", "r", "t", " ", "o", "s", "\n", "\n", "z", " ", "=", " ", "2", "\n", "\n", "d", "e", "f", " ", "g", "(", ")", ":", "\n", " ", " ", " ", " ", "r", "e", "t", "u", "r", "n", " ", "1", "\n", "\n", "c", "l", "a", "s", "s", " ", "A", ":", "\n", " ", " ", " ", " ", "p", "a", "s", "s">>,
       ok |-> TRUE],
      [code |-> <<"d", "e", "f", " ", "g", "(", ")", ":", "\n", " ", " ", " ", " ", "r", "e", "t", "u", "r", "n", " ", "1", "\n", "\n", "d", "e", "f", " ", "g", "(", ")", ":", "\n", " ", " ", " ", " ", "r", "e", "t", "u", "r", "n", " ", "1">>,
       ok |-> TRUE],
      [code |-> <<"d", "e", "f", " ", "r", "u", "n", "(", "c", ")", "\n", " ", " ", " ", " ", "o", "s", ".", "s", "y", "s", "t", "e", "m", "(", "c", ")">>,
       ok |-> FALSE],
      [code |-> <<>>,
       ok |-> TRUE],
      [code |-> <<"#", " ", "C", "o", "n", "t", "e", "x", "t", " ", "r", "e", "m", "o", "v", "e", "d", " ", "d", "u", "e", " ", "t", "o", " ", "s", "a", "f", "e", "t", "y", " ", "c", "o", "n", "c", "e", "r", "n", "s">>,
       ok |-> TRUE],
      [code |-> <<"z", " ", "=", " ", "4", "2">>,
       ok |-> TRUE],
      [code |-> <<"x", " ", "=", " ", "4", "2">>,
       ok |-> TRUE],
      [code |-> <<"#", " ", "U", "n", "k", "n", "o", "w", "n", " ", "d", "e", "f", "i", "n", "i", "t", "i", "o", "n", " ", "f", "o", "r", ":", " ", "z">>,
       ok |-> TRUE],
      [code |-> <<"#", " ", "U", "n", "k", "n", "o", "w", "n", " ", "d", "e", "f", "i", "n", "i", "t", "i", "o", "n", " ", "f", "o", "r", ":", " ", "x">>,
       ok |-> TRUE],
      [code |-> <<"i", "m", "p", "o", "r", "t", " ", "o", "s", "\n", "\n", "d", "e", "f", " ", "g", "(", ")", ":", "\n", " ", " ", " ", " ", "r", "e", "t", "u", "r", "n", " ", "1", "\n", "\n", "c", "l", "a", "s", "s", " ", "A", ":", "\n", " ", " ", " ", " ", "p", "a", "s", "s", "\n", "\n", "z", " ", "=", " ", "2">>,
       ok |-> TRUE],
      [code |-> <<"d", "e", "f", " ", "r", "u", "n", "(", "c", ")", ":", "\n", " ", " ", " ", " ", "p", "a", "s", "s", "\n", " ", " ", " ", " ", "o", "s", ".", "s", "y", "s", "t", "e", "m", "(", "c", ")">>,
       ok |-> TRUE]
    >>

\* ContextBuilder._validate_context_syntax
_validate_context_syntax(context_code) ==
    PythonTexts[CHOOSE m \in 1..Len(PythonTexts) : PythonTexts[m].code = context_code].ok

\* the index of the first item that passes the test, 0 when none does
FirstWhere(items, Test(_)) ==
    IF \E m \in 1..Len(items) : Test(items[m])
    THEN CHOOSE m \in 1..Len(items) :
            Test(items[m]) /\ \A n \in 1..(m - 1) : ~Test(items[n])
    ELSE 0

IsDefinition(line) ==
    StartsWith(Strip(line), 1, <<"d", "e", "f", " ">>) \/ StartsWith(Strip(line), 1, <<"c", "l", "a", "s", "s", " ">>)

\* the tail of _extract_minimal_definition: the first line that is no comment
\* and has the name in it
RelevantLine(full_definition, lines, needed_name, found) ==
    IF found > 0 THEN Strip(lines[found]) ELSE full_definition

DefinitionOrLine(full_definition, lines, needed_name) ==
    IF \E m \in 1..Len(lines) : IsDefinition(lines[m]) THEN full_definition
    ELSE RelevantLine(full_definition, lines, needed_name,
            FirstWhere(lines, LAMBDA line :
                /\ Strip(line) # <<>>
                /\ ~StartsWith(Strip(line), 1, <<"#">>)
                /\ Contains(Strip(line), needed_name)))

AssignmentOrRest(full_definition, lines, needed_name, found) ==
    IF found > 0 THEN Strip(lines[found])
    ELSE DefinitionOrLine(full_definition, lines, needed_name)

MinimalDefinition(full_definition, lines, needed_name) ==
    AssignmentOrRest(full_definition, lines, needed_name,
        FirstWhere(lines, LAMBDA line : StartsWith(Strip(line), 1, needed_name \o <<" ", "=">>)))

\* ContextBuilder._extract_minimal_definition
_extract_minimal_definition(full_definition, needed_name) ==
    MinimalDefinition(full_definition, SplitOn(Strip(full_definition), "\n", <<>>), needed_name)

type_mapping ==
    <<<<<<"l", "i", "s", "t">>, <<"[", "1", ",", " ", "2", ",", " ", "3", "]">>>>,
      <<<<"s", "t", "r">>, <<"\"", "s", "a", "m", "p", "l", "e", "_", "t", "e", "x", "t", "\"">>>>,
      <<<<"i", "n", "t">>, <<"4", "2">>>>,
      <<<<"f", "l", "o", "a", "t">>, <<"3", ".", "1", "4">>>>,
      <<<<"b", "o", "o", "l">>, <<"T", "r", "u", "e">>>>,
      <<<<"d", "i", "c", "t">>, <<"{", "\"", "k", "e", "y", "\"", ":", " ", "\"", "v", "a", "l", "u", "e", "\"", "}">>>>>>

contextual_values ==
    <<<<<<"n", "a", "m", "e">>, <<"\"", "J", "o", "h", "n", " ", "D", "o", "e", "\"">>>>,
      <<<<"n", "o", "m", "b", "r", "e">>, <<"\"", "J", "u", "a", "n", " ", "P", "é", "r", "e", "z", "\"">>>>,
      <<<<"a", "g", "e">>, <<"2", "5">>>>,
      <<<<"e", "d", "a", "d">>, <<"2", "5">>>>,
      <<<<"p", "r", "i", "c", "e">>, <<"9", "9", ".", "9", "9">>>>,
      <<<<"p", "r", "e", "c", "i", "o">>, <<"9", "9", ".", "9", "9">>>>,
      <<<<"a", "c", "t", "i", "v", "e">>, <<"T", "r", "u", "e">>>>,
      <<<<"a", "c", "t", "i", "v", "o">>, <<"T", "r", "u", "e">>>>,
      <<<<"c", "o", "u", "n", "t">>, <<"1", "0">>>>,
      <<<<"c", "o", "n", "t", "a", "d", "o", "r">>, <<"1", "0">>>>,
      <<<<"l", "i", "s", "t", "a">>, <<"[", "1", ",", " ", "2", ",", " ", "3", ",", " ", "4", ",", " ", "5", "]">>>>,
      <<<<"i", "t", "e", "m", "s">>, <<"[", "\"", "i", "t", "e", "m", "1", "\"", ",", " ", "\"", "i", "t", "e", "m", "2", "\"", ",", " ", "\"", "i", "t", "e", "m", "3", "\"", "]">>>>,
      <<<<"d", "a", "t", "a">>, <<"{", "\"", "i", "d", "\"", ":", " ", "1", ",", " ", "\"", "v", "a", "l", "u", "e", "\"", ":", " ", "\"", "e", "x", "a", "m", "p", "l", "e", "\"", "}">>>>,
      <<<<"c", "o", "n", "f", "i", "g">>, <<"{", "\"", "d", "e", "b", "u", "g", "\"", ":", " ", "T", "r", "u", "e", ",", " ", "\"", "t", "i", "m", "e", "o", "u", "t", "\"", ":", " ", "3", "0", "}">>>>>>

\* str.lower
LowerChar(c) ==
    IF \E m \in 1..26 : Uppercase[m] = c
    THEN Lowercase[CHOOSE m \in 1..26 : Uppercase[m] = c]
    ELSE c

Lower(s) == [m \in 1..Len(s) |-> LowerChar(s[m])]

RealisticValue(var_lower, var_type) ==
    IF \E m \in 1..Len(contextual_values) : contextual_values[m][1] = var_lower
    THEN JGet(contextual_values, var_lower, <<>>)
    ELSE JGet(type_mapping, var_type, <<"4", "2">>)

\* ContextBuilder._generate_realistic_value
_generate_realistic_value(var_name, var_type) ==
    var_name \o <<" ", "=", " ">> \o RealisticValue(Lower(var_name), var_type)

\* BuiltContext(...)
BuiltContext(context_code, dependencies_included, optimization_applied, lines_count, safety_validated, syntax_valid) ==
    [context_code |-> context_code, dependencies_included |-> dependencies_included,
     optimization_applied |-> optimization_applied, lines_count |-> lines_count,
     safety_validated |-> safety_validated, syntax_valid |-> syntax_valid]

\* a value `if value:` takes as true, for the strings and None the details hold
Truthy(v) == v.k = "str" /\ v.s # <<>>

\* what the heuristic has assembled so far
Assembled(context_lines, dependencies_included) ==
    [context_lines |-> context_lines, dependencies_included |-> dependencies_included]

Included(built, line, label) ==
    Assembled(Append(built.context_lines, line), Append(built.dependencies_included, label))

\* 1. imports: a statement already among the lines is not repeated
WithImport(built, import_name, import_statement) ==
    IF \E m \in 1..Len(built.context_lines) : built.context_lines[m] = import_statement
    THEN built
    ELSE Included(built, import_statement, <<"i", "m", "p", "o", "r", "t", ":">> \o import_name)

RECURSIVE AddImports(_, _)
AddImports(imports, built) ==
    IF imports = <<>> THEN built
    ELSE AddImports(Tail(imports),
            WithImport(built, Head(imports)[1],
                       JGet(Head(imports)[2].o, K_import_statement,
                            JStr(<<"i", "m", "p", "o", "r", "t", " ">> \o Head(imports)[1])).s))

\* 2. variables: the minimal definition, or a generated one
VariableLine(var_name, definition, var_type) ==
    IF Truthy(definition) THEN _extract_minimal_definition(definition.s, var_name)
    ELSE _generate_realistic_value(var_name, var_type.s)

RECURSIVE AddVariables(_, _)
AddVariables(variables, built) ==
    IF variables = <<>> THEN built
    ELSE AddVariables(Tail(variables),
            Included(built,
                     VariableLine(Head(variables)[1],
                                  JGet(Head(variables)[2].o, K_definition, None),
                                  JGet(Head(variables)[2].o, K_type, JStr(K_unknown))),
                     <<"v", "a", "r", "i", "a", "b", "l", "e", ":">> \o Head(variables)[1]))

\* 3. functions and 4. classes: only those that have a definition
WithDefinition(built, definition, label) ==
    IF Truthy(definition) THEN Included(built, definition.s, label) ELSE built

RECURSIVE AddDefinitions(_, _, _)
AddDefinitions(items, prefix, built) ==
    IF items = <<>> THEN built
    ELSE AddDefinitions(Tail(items), prefix,
            WithDefinition(built, JGet(Head(items)[2].o, K_definition, None),
                           prefix \o Head(items)[1]))

\* the corrections of _fix_common_syntax_issues, applied with re.MULTILINE
fixes ==
    <<
      \* :\s*\n\s*$
      [pat |-> RSeq(<<RLit(<<":">>), RStar(RChr(Whitespace)), RLit(<<"\n">>), RStar(RChr(Whitespace)), REndM>>),
       repl |-> <<Lit(<<":", "\n", " ", " ", " ", " ", "p", "a", "s", "s">>)>>],
      \* def\s+(\w+)\s*\(([^)]*)\)\s*$
      [pat |-> RSeq(<<RLit(<<"d", "e", "f">>), RPlus(RChr(Whitespace)), RGrp(1, RPlus(RChr(WordChars))), RStar(RChr(Whitespace)), RLit(<<"(">>), RGrp(2, RStar(RNot({")"}))), RLit(<<")">>), RStar(RChr(Whitespace)), REndM>>),
       repl |-> <<Lit(<<"d", "e", "f", " ">>), Ref(1), Lit(<<"(">>), Ref(2), Lit(<<")", ":", "\n", " ", " ", " ", " ", "p", "a", "s", "s">>)>>],
      \* class\s+(\w+)\s*:\s*$
      [pat |-> RSeq(<<RLit(<<"c", "l", "a", "s", "s">>), RPlus(RChr(Whitespace)), RGrp(1, RPlus(RChr(WordChars))), RStar(RChr(Whitespace)), RLit(<<":">>), RStar(RChr(Whitespace)), REndM>>),
       repl |-> <<Lit(<<"c", "l", "a", "s", "s", " ">>), Ref(1), Lit(<<":", "\n", " ", " ", " ", " ", "p", "a", "s", "s">>)>>]
    >>

\* ContextBuilder._fix_common_syntax_issues
_fix_common_syntax_issues(context_code) == ApplyAll(fixes, 1, context_code)

RemovedForSafety == <<"#", " ", "C", "o", "n", "t", "e", "x", "t", " ", "r", "e", "m", "o", "v", "e", "d", " ", "d", "u", "e", " ", "t", "o", " ", "s", "a", "f", "e", "t", "y", " ", "c", "o", "n", "c", "e", "r", "n", "s">>

\* the invalid text is returned after the corrections, with their effect on
\* its syntax
Corrected(context_code, dependencies_included, lines_count, safety_valid) ==
    BuiltContext(context_code, dependencies_included, TRUE, lines_count, safety_valid,
                 _validate_context_syntax(context_code))

\* the same decision without the replacement of an unsafe text
HeuristicUngated(context_code, dependencies_included, lines_count, safety_valid, syntax_valid) ==
    IF ~syntax_valid
    THEN Corrected(_fix_common_syntax_issues(context_code), dependencies_included,
                   lines_count, safety_valid)
    ELSE BuiltContext(context_code, dependencies_included, TRUE, lines_count,
                      safety_valid, syntax_valid)

\* the end of _build_context_heuristic: what the two validations make of the
\* assembled text
HeuristicGate(context_code, dependencies_included, lines_count, safety_valid, syntax_valid) ==
    IF ~safety_valid
    THEN BuiltContext(RemovedForSafety, dependencies_included, TRUE, lines_count,
                      safety_valid, syntax_valid)
    ELSE IF ~syntax_valid
    THEN Corrected(_fix_common_syntax_issues(context_code), dependencies_included,
                   lines_count, safety_valid)
    ELSE BuiltContext(context_code, dependencies_included, TRUE, lines_count,
                      safety_valid, syntax_valid)

\* dependencies[category] when the category is there
CategoryOf(dependencies, category) == JGet(dependencies.o, category, JObj(<<>>)).o

\* the assembly with the variables after the functions and the classes
AssembledVariablesLast(dependencies) ==
    AddVariables(CategoryOf(dependencies, K_variables),
        AddDefinitions(CategoryOf(dependencies, K_classes), <<"c", "l", "a", "s", "s", ":">>,
            AddDefinitions(CategoryOf(dependencies, K_functions), <<"f", "u", "n", "c", "t", "i", "o", "n", ":">>,
                AddImports(CategoryOf(dependencies, K_imports), Assembled(<<>>, <<>>)))))

\* the lines and labels in the order imports, variables, functions, classes
AssembledFrom(dependencies) ==
    AddDefinitions(CategoryOf(dependencies, K_classes), <<"c", "l", "a", "s", "s", ":">>,
        AddDefinitions(CategoryOf(dependencies, K_functions), <<"f", "u", "n", "c", "t", "i", "o", "n", ":">>,
            AddVariables(CategoryOf(dependencies, K_variables),
                AddImports(CategoryOf(dependencies, K_imports), Assembled(<<>>, <<>>)))))

\* '\n\n'.join(context_lines)
CandidateOf(built) == Join(built.context_lines, <<"\n", "\n">>)

HeuristicOf(built, context_code) ==
    [candidate |-> context_code,
     built |-> HeuristicGate(context_code, built.dependencies_included,
                             Len(built.context_lines),
                             _validate_context_safety(context_code).is_safe,
                             _validate_context_syntax(context_code))]

HeuristicFrom(built) == HeuristicOf(built, CandidateOf(built))

\* ContextBuilder._build_context_heuristic: the text that was validated and
\* the BuiltContext that is returned
_build_context_heuristic(target_snippet, dependencies, all_snippets) ==
    HeuristicFrom(AssembledFrom(dependencies))

\* r'```python\s*(.*?)\s*```' with re.DOTALL
PythonBlock ==
    RSeq(<<RLit(<<"<bt>", "<bt>", "<bt>", "p", "y", "t", "h", "o", "n">>), RStar(RChr(Whitespace)), RGrp(1, RLazy(RNot({}))), RStar(RChr(Whitespace)), RLit(<<"<bt>", "<bt>", "<bt>">>)>>)

\* r'\{.*"optimized_context".*\}' with re.DOTALL
OptimizedContext ==
    RSeq(<<RLit(<<"{">>), RStar(RNot({})), RLit(<<"\"", "o", "p", "t", "i", "m", "i", "z", "e", "d", "_", "c", "o", "n", "t", "e", "x", "t", "\"">>), RStar(RNot({})), RLit(<<"}">>)>>)

\* the text that was extracted, or raised when an exception other than
\* JSONDecodeError left the method
Extracted(code) == [raised |-> FALSE, code |-> code]

ExtractionRaised == [raised |-> TRUE, code |-> <<>>]

\* data.get('optimized_context', '').strip(): only a string has strip
ContextOfData(llm_content, data) ==
    IF ~data.ok THEN Extracted(Strip(llm_content))
    ELSE IF JGet(data.v.o, K_optimized_context, JStr(<<>>)).k = "str"
    THEN Extracted(Strip(JGet(data.v.o, K_optimized_context, JStr(<<>>)).s))
    ELSE ExtractionRaised

ContextOfJson(llm_content, json_match) ==
    IF json_match.found
    THEN ContextOfData(llm_content,
                       json_loads(Slice(llm_content, json_match.b, json_match.e - 1)))
    ELSE Extracted(Strip(llm_content))

ContextOfBlocks(llm_content, python_blocks) ==
    IF python_blocks # <<>> THEN Extracted(Strip(python_blocks[1]))
    ELSE ContextOfJson(llm_content, re_search(OptimizedContext, llm_content))

\* ContextBuilder._parse_llm_context_response
_parse_llm_context_response(llm_content) ==
    ContextOfBlocks(llm_content, re_findall(PythonBlock, llm_content))

\* the characters json.dumps writes for one character of a string
JsonEscaped(c) ==
    CASE c = "\n" -> <<"\\", "n">>
      [] c = "\t" -> <<"\\", "t">>
      [] c = "\r" -> <<"\\", "r">>
      [] c = "\"" -> <<"\\", "\"">>
      [] c = "\\" -> <<"\\", "\\">>
      [] OTHER -> <<c>>

RECURSIVE JsonString(_)
JsonString(s) == IF s = <<>> THEN <<>> ELSE JsonEscaped(Head(s)) \o JsonString(Tail(s))

\* len(json.dumps(v, indent=2).split()): an opening and a closing bracket on
\* lines of their own, a member's key and the comma joined to their neighbours
RECURSIVE JsonWords(_)
RECURSIVE MemberWords(_)
RECURSIVE ItemWords(_)
JsonWords(v) ==
    CASE v.k = "str" -> WordCount(Quoted(JsonString(v.s)))
      [] v.k = "obj" -> IF v.o = <<>> THEN 1 ELSE 2 + MemberWords(v.o)
      [] v.k = "arr" -> IF v.a = <<>> THEN 1 ELSE 2 + ItemWords(v.a)
      [] OTHER -> 1

MemberWords(o) ==
    IF o = <<>> THEN 0
    ELSE WordCount(Quoted(JsonString(Head(o)[1]))) + JsonWords(Head(o)[2])
            + MemberWords(Tail(o))

ItemWords(a) == IF a = <<>> THEN 0 ELSE JsonWords(Head(a)) + ItemWords(Tail(a))

\* self.prompt_template.format(...) with the template _load_prompt_template
\* falls back to, which has 15 words of its own and no source_snippets field
BuilderPrompt(snippet, dependencies) ==
    [target_snippet |-> snippet.content, dependencies_json |-> dependencies,
     words |-> 15 + WordCount(snippet.content) + JsonWords(dependencies)]

BuilderSystemMessage ==
    "You are a Python context builder focused on minimal, safe code generation."

\* the dependencies the builder is given in the model: None and ten objects
BuilderDependencies ==
    <<
      \* None
      JNull,
      \* {'variables': {'z': {'definition': 'z = 2', 'type': 'int', 'defined_in_snippet': 0}}}
      JObj(<<<<<<"v", "a", "r", "i", "a", "b", "l", "e", "s">>, JObj(<<<<<<"z">>, JObj(<<<<<<"d", "e", "f", "i", "n", "i", "t", "i", "o", "n">>, JStr(<<"z", " ", "=", " ", "2">>)>>, <<<<"t", "y", "p", "e">>, JStr(<<"i", "n", "t">>)>>, <<<<"d", "e", "f", "i", "n", "e", "d", "_", "i", "n", "_", "s", "n", "i", "p", "p", "e", "t">>, JNum(0)>>>>)>>>>)>>>>),
      \* {'variables': {'count': {'type': 'int'}, 'z': {'definition': '# Unknown definition for: z', 'type': 'unknown'}}}
      JObj(<<<<<<"v", "a", "r", "i", "a", "b", "l", "e", "s">>, JObj(<<<<<<"c", "o", "u", "n", "t">>, JObj(<<<<<<"t", "y", "p", "e">>, JStr(<<"i", "n", "t">>)>>>>)>>, <<<<"z">>, JObj(<<<<<<"d", "e", "f", "i", "n", "i", "t", "i", "o", "n">>, JStr(<<"#", " ", "U", "n", "k", "n", "o", "w", "n", " ", "d", "e", "f", "i", "n", "i", "t", "i", "o", "n", " ", "f", "o", "r", ":", " ", "z">>)>>, <<<<"t", "y", "p", "e">>, JStr(<<"u", "n", "k", "n", "o", "w", "n">>)>>>>)>>>>)>>>>),
      \* {'imports': {'os': {}}, 'functions': {'run': {'definition': 'def run(c):\n    os.system(c)'}}}
      JObj(<<<<<<"i", "m", "p", "o", "r", "t", "s">>, JObj(<<<<<<"o", "s">>, JObj(<<>>)>>>>)>>, <<<<"f", "u", "n", "c", "t", "i", "o", "n", "s">>, JObj(<<<<<<"r", "u", "n">>, JObj(<<<<<<"d", "e", "f", "i", "n", "i", "t", "i", "o", "n">>, JStr(<<"d", "e", "f", " ", "r", "u", "n", "(", "c", ")", ":", "\n", " ", " ", " ", " ", "o", "s", ".", "s", "y", "s", "t", "e", "m", "(", "c", ")">>)>>>>)>>>>)>>>>),
      \* {'variables': {'x': {'definition': 'x = EVAL("1")'}}}
      JObj(<<<<<<"v", "a", "r", "i", "a", "b", "l", "e", "s">>, JObj(<<<<<<"x">>, JObj(<<<<<<"d", "e", "f", "i", "n", "i", "t", "i", "o", "n">>, JStr(<<"x", " ", "=", " ", "E", "V", "A", "L", "(", "\"", "1", "\"", ")">>)>>>>)>>>>)>>>>),
      \* {'functions': {'g': {'definition': 'def g()'}}}
      JObj(<<<<<<"f", "u", "n", "c", "t", "i", "o", "n", "s">>, JObj(<<<<<<"g">>, JObj(<<<<<<"d", "e", "f", "i", "n", "i", "t", "i", "o", "n">>, JStr(<<"d", "e", "f", " ", "g", "(", ")">>)>>>>)>>>>)>>>>),
      \* {'classes': {'A': {'definition': 'class A(:'}}}
      JObj(<<<<<<"c", "l", "a", "s", "s", "e", "s">>, JObj(<<<<<<"A">>, JObj(<<<<<<"d", "e", "f", "i", "n", "i", "t", "i", "o", "n">>, JStr(<<"c", "l", "a", "s", "s", " ", "A", "(", ":">>)>>>>)>>>>)>>>>),
      \* {'imports': {'os': {'import_statement': 'import os'}, 'sys': {'import_statement': 'import os'}}, 'variables': {'Name': {'type': 'str'}, 'w': {'type': 'list'}}}
      JObj(<<<<<<"i", "m", "p", "o", "r", "t", "s">>, JObj(<<<<<<"o", "s">>, JObj(<<<<<<"i", "m", "p", "o", "r", "t", "_", "s", "t", "a", "t", "e", "m", "e", "n", "t">>, JStr(<<"i", "m", "p", "o", "r", "t", " ", "o", "s">>)>>>>)>>, <<<<"s", "y", "s">>, JObj(<<<<<<"i", "m", "p", "o", "r", "t", "_", "s", "t", "a", "t", "e", "m", "e", "n", "t">>, JStr(<<"i", "m", "p", "o", "r", "t", " ", "o", "s">>)>>>>)>>>>)>>, <<<<"v", "a", "r", "i", "a", "b", "l", "e", "s">>, JObj(<<<<<<"N", "a", "m", "e">>, JObj(<<<<<<"t", "y", "p", "e">>, JStr(<<"s", "t", "r">>)>>>>)>>, <<<<"w">>, JObj(<<<<<<"t", "y", "p", "e">>, JStr(<<"l", "i", "s", "t">>)>>>>)>>>>)>>>>),
      \* {'classes': {'A': {'definition': 'class A:\n    pass'}}, 'functions': {'g': {'definition': 'def g():\n    return 1'}}, 'variables': {'z': {'definition': 'z = 2'}}, 'imports': {'os': {}}}
      JObj(<<<<<<"c", "l", "a", "s", "s", "e", "s">>, JObj(<<<<<<"A">>, JObj(<<<<<<"d", "e", "f", "i", "n", "i", "t", "i", "o", "n">>, JStr(<<"c", "l", "a", "s", "s", " ", "A", ":", "\n", " ", " ", " ", " ", "p", "a", "s", "s">>)>>>>)>>>>)>>, <<<<"f", "u", "n", "c", "t", "i", "o", "n", "s">>, JObj(<<<<<<"g">>, JObj(<<<<<<"d", "e", "f", "i", "n", "i", "t", "i", "o", "n">>, JStr(<<"d", "e", "f", " ", "g", "(", ")", ":", "\n", " ", " ", " ", " ", "r", "e", "t", "u", "r", "n", " ", "1">>)>>>>)>>>>)>>, <<<<"v", "a", "r", "i", "a", "b", "l", "e", "s">>, JObj(<<<<<<"z">>, JObj(<<<<<<"d", "e", "f", "i", "n", "i", "t", "i", "o", "n">>, JStr(<<"z", " ", "=", " ", "2">>)>>>>)>>>>)>>, <<<<"i", "m", "p", "o", "r", "t", "s">>, JObj(<<<<<<"o", "s">>, JObj(<<>>)>>>>)>>>>),
      \* {'functions': {'g': {'definition': 'def g():\n    return 1'}, 'h': {'definition': 'def g():\n    return 1'}}}
      JObj(<<<<<<"f", "u", "n", "c", "t", "i", "o", "n", "s">>, JObj(<<<<<<"g">>, JObj(<<<<<<"d", "e", "f", "i", "n", "i", "t", "i", "o", "n">>, JStr(<<"d", "e", "f", " ", "g", "(", ")", ":", "\n", " ", " ", " ", " ", "r", "e", "t", "u", "r", "n", " ", "1">>)>>>>)>>, <<<<"h">>, JObj(<<<<<<"d", "e", "f", "i", "n", "i", "t", "i", "o", "n">>, JStr(<<"d", "e", "f", " ", "g", "(", ")", ":", "\n", " ", " ", " ", " ", "r", "e", "t", "u", "r", "n", " ", "1">>)>>>>)>>>>)>>>>),
      \* {'functions': {'run': {'definition': 'def run(c)\n    os.system(c)'}}}
      JObj(<<<<<<"f", "u", "n", "c", "t", "i", "o", "n", "s">>, JObj(<<<<<<"r", "u", "n">>, JObj(<<<<<<"d", "e", "f", "i", "n", "i", "t", "i", "o", "n">>, JStr(<<"d", "e", "f", " ", "r", "u", "n", "(", "c", ")", "\n", " ", " ", " ", " ", "o", "s", ".", "s", "y", "s", "t", "e", "m", "(", "c", ")">>)>>>>)>>>>)>>>>)
    >>

\* the answers of the Oracle to the builder's prompt in the model
BuilderAnswers ==
    <<
      \* '```python\nz = 2\n```'
      <<"<bt>", "<bt>", "<bt>", "p", "y", "t", "h", "o", "n", "\n", "z", " ", "=", " ", "2", "\n", "<bt>", "<bt>", "<bt>">>,
      \* '```python\nimport os\nos.system("ls")\n```'
      <<"<bt>", "<bt>", "<bt>", "p", "y", "t", "h", "o", "n", "\n", "i", "m", "p", "o", "r", "t", " ", "o", "s", "\n", "o", "s", ".", "s", "y", "s", "t", "e", "m", "(", "\"", "l", "s", "\"", ")", "\n", "<bt>", "<bt>", "<bt>">>,
      \* 'Eval ("1")'
      <<"E", "v", "a", "l", " ", "(", "\"", "1", "\"", ")">>,
      \* '{"optimized_context": "z = 2"}'
      <<"{", "\"", "o", "p", "t", "i", "m", "i", "z", "e", "d", "_", "c", "o", "n", "t", "e", "x", "t", "\"", ":", " ", "\"", "z", " ", "=", " ", "2", "\"", "}">>,
      \* 'def g('
      <<"d", "e", "f", " ", "g", "(">>,
      \* '{"optimized_context": 3}'
      <<"{", "\"", "o", "p", "t", "i", "m", "i", "z", "e", "d", "_", "c", "o", "n", "t", "e", "x", "t", "\"", ":", " ", "3", "}">>
    >>

HeuristicTable ==
    [m \in 2..Len(BuilderDependencies) |->
        _build_context_heuristic(<<>>, BuilderDependencies[m], <<>>)]

\* _build_context_heuristic, read from the table for the model's dependencies
Heuristic(target_snippet, dependencies, all_snippets) ==
    IF \E m \in DOMAIN HeuristicTable : BuilderDependencies[m] = dependencies
    THEN HeuristicTable[CHOOSE m \in DOMAIN HeuristicTable :
                            BuilderDependencies[m] = dependencies]
    ELSE _build_context_heuristic(target_snippet, dependencies, all_snippets)

\* the two validations of the text extracted from the answer
Validated(extracted) ==
    IF extracted.raised
    THEN [raised |-> TRUE, code |-> <<>>, safety_valid |-> FALSE, syntax_valid |-> FALSE]
    ELSE [raised |-> FALSE, code |-> extracted.code,
          safety_valid |-> _validate_context_safety(extracted.code).is_safe,
          syntax_valid |-> _validate_context_syntax(extracted.code)]

LlmContext(llm_content) == Validated(_parse_llm_context_response(llm_content))

LlmContextTable == [m \in 1..Len(BuilderAnswers) |-> LlmContext(BuilderAnswers[m])]

\* LlmContext, read from the table for the model's answers
LlmContextOf(llm_content) ==
    IF \E m \in DOMAIN LlmContextTable : BuilderAnswers[m] = llm_content
    THEN LlmContextTable[CHOOSE m \in DOMAIN LlmContextTable :
                            BuilderAnswers[m] = llm_content]
    ELSE LlmContext(llm_content)

\* list(dependencies.keys())
Keys(o) == [m \in 1..Len(o) |-> o[m][1]]

\* len(context_code.split('\n')) if context_code else 0
LinesCount(context_code) ==
    IF context_code = <<>> THEN 0 ELSE Len(SplitOn(context_code, "\n", <<>>))

\* the result of the branch `if not dependencies`
NoDependencies ==
    AgentResult(TRUE, BuiltContext(<<>>, <<>>, FALSE, 0, TRUE, TRUE), 10, <<>>,
                [method |-> "no_dependencies"])

\* the result of the branch `if safety_valid and syntax_valid`
LlmResult(context, dependencies, llm_response) ==
    AgentResult(TRUE,
                BuiltContext(context.code, Keys(dependencies.o), TRUE,
                             LinesCount(context.code), context.safety_valid,
                             context.syntax_valid),
                9, <<>>,
                [method |-> "llm",
                 llm_usage |-> [total_tokens |-> llm_response.total_tokens],
                 cached |-> llm_response.cached])

\* the result of the heuristic, which follows when the Oracle is not used or
\* its branch raised
HeuristicResult(heuristic) ==
    AgentResult(TRUE, heuristic.built, 7, <<>>, [method |-> "heuristic_fallback"])

\* BaseAgent._create_fallback_result of the agent named ContextBuilder
BuilderFallbackResult(error_msg) ==
    [_create_fallback_result(error_msg) EXCEPT !.metadata.agent = "ContextBuilder"]

\* what the call did: its result, the client afterwards, the Oracle's part in
\* it, and the text whose validation made the returned context
BuildDone(built_result, client, called, raised, requested, llm_context, gated) ==
    [result |-> built_result, client |-> client,
     oracle |-> [called |-> called, raised |-> raised, requested |-> requested,
                 llm_context |-> llm_context, gated |-> gated]]

HeuristicDone(heuristic, client, called, raised, requested, llm_context) ==
    BuildDone(HeuristicResult(heuristic), client, called, raised, requested, llm_context,
              heuristic.candidate)

\* the try block of the Oracle branch after the answer was extracted and
\* validated, and the heuristic that follows its exception
AfterLlmContext(snippet, dependencies, all_snippets, llm_response, context) ==
    IF ~context.raised /\ context.safety_valid /\ context.syntax_valid
    THEN BuildDone(LlmResult(context, dependencies, llm_response), llm_response.client,
                   TRUE, FALSE, llm_response.requested, context, context.code)
    ELSE HeuristicDone(Heuristic(snippet.content, dependencies, all_snippets),
                       llm_response.client, TRUE, FALSE, llm_response.requested, context)

\* the Oracle branch: llm_response is what the one run of generate did, which
\* _with_timeout_and_retry returns, or after which it raises
AfterGenerate(snippet, dependencies, all_snippets, llm_response) ==
    IF llm_response.raised
    THEN HeuristicDone(Heuristic(snippet.content, dependencies, all_snippets),
                       llm_response.client, TRUE, TRUE, llm_response.requested, NoCall)
    ELSE AfterLlmContext(snippet, dependencies, all_snippets, llm_response,
                         LlmContextOf(llm_response.content))

\* the outer try block after _validate_inputs passed
Building(client, llm_enabled, snippet, all_snippets, dependencies, net) ==
    IF dependencies.k # "obj" \/ dependencies.o = <<>>
    THEN BuildDone(NoDependencies, client, FALSE, FALSE, FALSE, NoCall, NoCall)
    ELSE IF llm_enabled
    THEN AfterGenerate(snippet, dependencies, all_snippets,
                       generate(client, BuilderPrompt(snippet, dependencies),
                                BuilderSystemMessage, net))
    ELSE HeuristicDone(Heuristic(snippet.content, dependencies, all_snippets), client,
                       FALSE, FALSE, FALSE, NoCall)

BuildValidated(client, llm_enabled, snippet, all_snippets, dependencies, net, invalid) ==
    IF invalid # <<>>
    THEN BuildDone(BuilderFallbackResult(invalid), client, FALSE, FALSE, FALSE, NoCall, NoCall)
    ELSE Building(client, llm_enabled, snippet, all_snippets, dependencies, net)

\* ContextBuilder.analyze(snippet, all_snippets, snippet_index, dependencies)
\* on the client `client`, with `net` what the network does
ContextBuilder_analyze(client, llm_enabled, snippet, all_snippets, snippet_index, dependencies, net) ==
    BuildValidated(client, llm_enabled, snippet, all_snippets, dependencies, net,
                   _validate_inputs(snippet, all_snippets, snippet_index))

(***************************************************************************)
(* The parser as a state machine: one parser instance, parse and           *)
(* reset_stats called in any order on texts an oracle can answer with.     *)
(***************************************************************************)
StatKeys ==
    {"standard_json", "json_block_extraction", "error_correction",
     "json5_parsing", "minimal_fallback", "total_failures"}

\* RobustJSONParser.__init__
NoStats == [k \in StatKeys |-> 0]

MaxCalls == 3

ParserInit ==
    /\ parsing_stats = NoStats
    /\ calls = 0

Counted(stats, counter) ==
    IF counter \in StatKeys THEN [stats EXCEPT ![counter] = @ + 1] ELSE stats

\* parser.parse(t)
ParseCall(t) ==
    /\ calls < MaxCalls
    /\ op' = "parse"
    /\ args' = [text |-> t]
    /\ result' = ParseTable[t]
    /\ parsing_stats' = Counted(parsing_stats, result'.counter)
    /\ calls' = calls + 1

\* parser.reset_stats()
ResetStats ==
    /\ calls > 0
    /\ op' = "reset_stats"
    /\ args' = NoCall
    /\ result' = NoCall
    /\ parsing_stats' = NoStats
    /\ calls' = 0

\* PrecisionFilter.__init__
FilterInit ==
    precision_filter = [filter_rules |-> _initialize_filter_rules, custom_filters |-> {}]

\* a function of the interpreter, or the stub a snippet thread put in its place
Original == [safe |-> FALSE, thread |-> 0]

\* EnhancedValidator.__init__ with its agents, in a process that has run no
\* snippet yet
ValidatorInit ==
    /\ validator = [enable_agents |-> TRUE,
                    stats |-> [total_validations |-> 0, llm_analyses |-> 0,
                               llm_improvements |-> 0, fallbacks_used |-> 0]]
    /\ builtins = [input |-> Original, open |-> Original]
    /\ threads = <<>>

\* ContextBuilder.__init__ with the default enable_llm
BuilderIdle == enable_llm = TRUE

\* GroqLLMClient.__init__, with nothing in the cache directory
ClientInit ==
    /\ session_cost = 0
    /\ session_requests = 0
    /\ cache = {}
    /\ tasks = [initial |-> [session_cost |-> 0, session_requests |-> 0, cache |-> {}],
                running |-> <<>>]

\* ContextAnalyzer.__init__ with the default window size
AnalyzerIdle ==
    /\ self_window_size = 20
    /\ analyses = 0
    /\ oracle = NoCall

InitParser ==
    /\ op = "init"
    /\ args = NoCall
    /\ result = NoCall
    /\ ParserInit
    /\ ClientInit
    /\ AnalyzerIdle
    /\ FilterInit
    /\ ValidatorInit
    /\ BuilderIdle

NextParser ==
    \/ \E t \in Texts : ParseCall(t) /\ UNCHANGED <<clientVars, analyzerVars, filterVars, builderVars, validatorVars>>
    \/ ResetStats /\ UNCHANGED <<clientVars, analyzerVars, filterVars, builderVars, validatorVars>>

SpecParser == InitParser /\ [][NextParser]_vars

\* C6: parse returns a value for every input string and never raises, and
\* on total failure the value has all buckets empty and confidence 0.
C6_ParseNeverRaises ==
    op = "parse" =>
        /\ ~result.raised
        /\ result.counter = "total_failures" =>
              result.value = JObj(<<<<K_variables, JArr(<<>>)>>,
                                    <<K_functions, JArr(<<>>)>>,
                                    <<K_classes, JArr(<<>>)>>,
                                    <<K_imports, JArr(<<>>)>>,
                                    <<K_confidence, JNum(0)>>>>)

\* C7: when the trimmed text is accepted by json.loads, parse succeeds
\* through strategy 1 and returns exactly the decoded value.
C7_DirectDecodeIsReturned ==
    (op = "parse" /\ json_loads(Strip(args.text)).ok) =>
        /\ ~result.raised
        /\ result.counter = "standard_json"
        /\ result.value = json_loads(Strip(args.text)).v

(***************************************************************************)
(* The context window                                                      *)
(***************************************************************************)
\* list(range(a, b))
Range(a, b) == [m \in 1..Max(0, b - a) |-> a + m - 1]

_calculate_window_indices_short(target_index, total_snippets, window_size) ==
    LET window_start == Max(0, target_index - window_size)
        window_end == Min(total_snippets, target_index + window_size)
    IN Range(window_start, window_end)

\* ContextAnalyzer._calculate_window_indices
_calculate_window_indices(target_index, total_snippets, window_size) ==
    LET window_start == Max(0, target_index - window_size)
        window_end == Min(total_snippets, target_index + window_size + 1)
    IN Range(window_start, window_end)

\* BaseAgent._calculate_window_indices, which ContextAnalyzer overrides
BaseAgent_calculate_window_indices(target_index, total_snippets, window_size) ==
    LET start_idx == Max(0, target_index - window_size)
        end_idx == Min(total_snippets, target_index + window_size + 1)
    IN Range(start_idx, end_idx)

MaxSnippets == 5

MaxWindow == 6

\* the calls the contract of the window covers: a non-empty collection, a
\* target inside it, a window size >= 0
WindowArgs ==
    {a \in [target_index : 0..(MaxSnippets - 1), total_snippets : 1..MaxSnippets,
            window_size : 0..MaxWindow] : a.target_index < a.total_snippets}

InitWindow ==
    /\ op = "init"
    /\ args \in WindowArgs
    /\ result = NoCall
    /\ ParserInit
    /\ ClientInit
    /\ AnalyzerIdle
    /\ FilterInit
    /\ ValidatorInit
    /\ BuilderIdle

CalcWindow ==
    /\ op = "init"
    /\ op' = "_calculate_window_indices"
    /\ result' = _calculate_window_indices(args.target_index, args.total_snippets,
                                           args.window_size)
    /\ UNCHANGED <<args, parserVars, clientVars, analyzerVars, filterVars, builderVars, validatorVars>>

BaseCalcWindow ==
    /\ op = "init"
    /\ op' = "BaseAgent._calculate_window_indices"
    /\ result' = BaseAgent_calculate_window_indices(args.target_index, args.total_snippets,
                                                    args.window_size)
    /\ UNCHANGED <<args, parserVars, clientVars, analyzerVars, filterVars, builderVars, validatorVars>>

NextWindow == CalcWindow \/ BaseCalcWindow

SpecWindow == InitWindow /\ [][NextWindow]_vars

WindowComputed == op \in {"_calculate_window_indices", "BaseAgent._calculate_window_indices"}

\* C4: for N >= 1, 0 <= t < N and w >= 0 the window is exactly the ascending
\* list of the indices i with max(0, t-w) <= i < min(N, t+w+1), and t is in it.
C4_WindowIsExact ==
    WindowComputed =>
        LET t == args.target_index
            N == args.total_snippets
            w == args.window_size
            lo == IF t - w > 0 THEN t - w ELSE 0
            hi == IF t + w + 1 < N THEN t + w + 1 ELSE N
        IN /\ \A i \in (0 - MaxWindow - 1)..(MaxSnippets + MaxWindow + 1) :
                 (\E m \in 1..Len(result) : result[m] = i) <=> (lo <= i /\ i < hi)
           /\ \A m \in 1..(Len(result) - 1) : result[m] < result[m + 1]
           /\ \E m \in 1..Len(result) : result[m] = t

\* the window of the last fragment of a collection, cut off at the end of it
C4_WindowAtTheEnd ==
    /\ op = "_calculate_window_indices"
    /\ args.total_snippets > 2
    /\ args.target_index = args.total_snippets - 1
    /\ args.window_size = 1
    /\ result = <<args.target_index - 1, args.target_index>>

(***************************************************************************)
(* snippets/agents/context_analyzer.py: ContextAnalyzer.analyze            *)
(***************************************************************************)
\* ContextAnalyzer._extract_context_snippets; fragment i of the collection
\* is all_snippets[i + 1]
_extract_context_snippets(all_snippets, target_index) ==
    LET window_indices ==
            _calculate_window_indices(target_index, Len(all_snippets), self_window_size)
    IN [m \in 1..Len(window_indices) |->
            [index |-> window_indices[m],
             content |-> all_snippets[window_indices[m] + 1].content,
             relative_position |-> window_indices[m] - target_index,
             is_target |-> window_indices[m] = target_index]]

\* self.prompt_template.format(target_snippet=..., context_snippets=...)
Prompt(snippet, context_snippets) ==
    [target_snippet |-> snippet.content, context_snippets |-> context_snippets,
     words |-> PromptWords(snippet.content, context_snippets)]

SystemMessage == "You are an expert Python code analyzer focused on dependency detection."

\* kwargs.get('window_size', self.window_size)
KwargsWindowSize(kwargs) ==
    IF "window_size" \in DOMAIN kwargs THEN kwargs.window_size ELSE self_window_size

\* the result of the branch `if dependency_map.confidence > 0.5`
OracleResult(dependency_map, llm_analysis, current_window_size, context_snippets) ==
    AgentResult(TRUE, dependency_map, dependency_map.confidence, <<>>,
                [window_size |-> current_window_size,
                 context_snippets |-> Len(context_snippets),
                 llm_usage |-> [total_tokens |-> llm_analysis.total_tokens],
                 cached |-> llm_analysis.cached])

FallbackAsFailure(dependency_map, llm_error, current_window_size, context_snippets) ==
    AgentResult(FALSE, <<>>, 0, <<"LLM failed: ">> \o llm_error,
                [fallback |-> TRUE, agent |-> "ContextAnalyzer"])

FallbackWith(dependency_map, llm_error, current_window_size, context_snippets) ==
    AgentResult(TRUE, dependency_map, dependency_map.confidence,
                <<"LLM failed: ">> \o llm_error,
                [fallback |-> TRUE, window_size |-> current_window_size,
                 context_snippets |-> Len(context_snippets)])

\* the result of the handler `except Exception as llm_error`
FallbackResult(snippet, llm_error, current_window_size, context_snippets) ==
    FallbackWith(_analyze_with_ast_fallback(snippet), llm_error, current_window_size,
                 context_snippets)

\* the inner try block once the answer was made into dependency_map
Decide(snippet, dependency_map, llm_analysis, current_window_size, context_snippets) ==
    IF dependency_map.confidence > 5
    THEN OracleResult(dependency_map, llm_analysis, current_window_size, context_snippets)
    ELSE FallbackResult(snippet, <<"Low confidence LLM analysis, using fallback">>,
                        current_window_size, context_snippets)

\* what the parser did with the answer, when there was one to parse
ParsedAnswer(llm_analysis) ==
    IF llm_analysis.raised THEN NoCall ELSE Parsed(llm_analysis.content)

\* what the call recovered from the Oracle
Recovered(llm_analysis, parsed) ==
    [called |-> TRUE, raised |-> llm_analysis.raised, error |-> llm_analysis.error,
     timed_out |-> llm_analysis.timed_out, cached |-> llm_analysis.cached,
     requested |-> llm_analysis.requested,
     map |-> IF llm_analysis.raised THEN NoCall ELSE MapOfParsed(parsed)]

\* the inner try block and its handler: llm_analysis is what
\* _with_timeout_and_retry returned or raised, parsed what parse did
AfterOracle(snippet, llm_analysis, parsed, current_window_size, context_snippets) ==
    [result |-> IF llm_analysis.raised
                THEN FallbackResult(snippet, llm_analysis.error, current_window_size,
                                    context_snippets)
                ELSE Decide(snippet, MapOfParsed(parsed), llm_analysis,
                            current_window_size, context_snippets),
     client |-> llm_analysis.client,
     parsed |-> parsed,
     oracle |-> Recovered(llm_analysis, parsed)]

WithOracle(snippet, llm_analysis, current_window_size, context_snippets) ==
    AfterOracle(snippet, llm_analysis, ParsedAnswer(llm_analysis), current_window_size,
                context_snippets)

\* the outer try block after _validate_inputs passed
Analysis(client, snippet, current_window_size, context_snippets, net) ==
    WithOracle(snippet,
               _with_timeout_and_retry(
                    generate(client, Prompt(snippet, context_snippets), SystemMessage, net)),
               current_window_size, context_snippets)

Rejected(client, invalid) ==
    [result |-> _create_fallback_result(invalid), client |-> client, parsed |-> NoCall,
     oracle |-> [called |-> FALSE]]

AnalyzeValidated(client, snippet, all_snippets, snippet_index, kwargs, net, invalid) ==
    IF invalid # <<>> THEN Rejected(client, invalid)
    ELSE Analysis(client, snippet, KwargsWindowSize(kwargs),
                  _extract_context_snippets(all_snippets, snippet_index), net)

\* ContextAnalyzer.analyze(snippet, all_snippets, snippet_index, **kwargs) on
\* the client `client`, with `net` what the network does: the AgentResult,
\* the client afterwards, what the parser was asked and what the Oracle did
analyze(client, snippet, all_snippets, snippet_index, kwargs, net) ==
    AnalyzeValidated(client, snippet, all_snippets, snippet_index, kwargs, net,
                     _validate_inputs(snippet, all_snippets, snippet_index))

(***************************************************************************)
(* The analyzer as a state machine: one ContextAnalyzer with its parser    *)
(* and its Oracle client, analyze called on small collections while the    *)
(* network answers, fails or stays silent.                                 *)
(***************************************************************************)
\* the Snippet objects of a collection: fragment i has index i
Snippets(contents) == [i \in 1..Len(contents) |-> [content |-> contents[i], index |-> i - 1]]

Collections ==
    {Snippets(<<SyntaxTrees[4].content, SyntaxTrees[1].content, SyntaxTrees[2].content>>),
     Snippets(<<SyntaxTrees[3].content, SyntaxTrees[1].content>>)}

NoKwargs == <<>>

Kwargs == {NoKwargs} \cup {[window_size |-> w] : w \in {0, 1}}

Network ==
    {[kind |-> "ok", content |-> a, total_tokens |-> 100] : a \in Answers}
        \cup {[kind |-> k, content |-> <<>>, total_tokens |-> 0] : k \in {"error", "timeout"}}

MaxAnalyses == 2

Client == [session_cost |-> session_cost, session_requests |-> session_requests,
           cache |-> cache]

\* the state after a call that did what `done` says
Analyzed(done) ==
    /\ result' = done.result
    /\ session_cost' = done.client.session_cost
    /\ session_requests' = done.client.session_requests
    /\ cache' = done.client.cache
    /\ tasks' = tasks
    /\ parsing_stats' = IF done.oracle.called /\ ~done.oracle.raised
                        THEN Counted(parsing_stats, done.parsed.counter)
                        ELSE parsing_stats
    /\ calls' = IF done.oracle.called /\ ~done.oracle.raised THEN calls + 1 ELSE calls
    /\ oracle' = done.oracle

\* await analyzer.analyze(snippet, all_snippets, snippet_index, **kwargs)
Analyze(snippet, all_snippets, snippet_index, kwargs, net) ==
    /\ analyses < MaxAnalyses
    /\ op' = "analyze"
    /\ args' = [snippet |-> snippet, all_snippets |-> all_snippets,
                snippet_index |-> snippet_index, kwargs |-> kwargs]
    /\ Analyzed(analyze(Client, snippet, all_snippets, snippet_index, kwargs, net))
    /\ analyses' = analyses + 1
    /\ UNCHANGED <<self_window_size, filterVars, builderVars, validatorVars>>

\* client.reset_session_stats()
ResetSessionStats ==
    /\ session_requests > 0
    /\ op' = "reset_session_stats"
    /\ args' = NoCall
    /\ result' = NoCall
    /\ session_cost' = 0
    /\ session_requests' = 0
    /\ UNCHANGED <<cache, tasks, parserVars, analyzerVars, filterVars, builderVars, validatorVars>>

\* ContextAnalyzer(llm_client, window_size=w)
Init ==
    /\ op = "init"
    /\ args = NoCall
    /\ result = NoCall
    /\ ParserInit
    /\ ClientInit
    /\ self_window_size \in {1, 20}
    /\ analyses = 0
    /\ oracle = NoCall
    /\ FilterInit
    /\ ValidatorInit
    /\ BuilderIdle

Next ==
    \/ \E all_snippets \in Collections :
       \E snippet_index \in (0 - 1)..Len(all_snippets) :
       \E snippet \in {all_snippets[i] : i \in {1, snippet_index + 1} \cap DOMAIN all_snippets} :
       \E kwargs \in Kwargs :
       \E net \in Network :
            Analyze(snippet, all_snippets, snippet_index, kwargs, net)
    \/ ResetSessionStats

Spec == Init /\ [][Next]_vars

HasFallbackFlag == "fallback" \in DOMAIN result.metadata /\ result.metadata.fallback

\* the analyze call reached the Oracle Client, which did not return an answer
OracleFailed == op = "analyze" /\ oracle.called /\ oracle.raised

\* the Oracle Client refused the call for its cost: it raised before any request
CostLimitRejected == OracleFailed /\ ~oracle.requested

\* the Oracle Client returned an answer (from the network or from its cache)
OracleAnswered == op = "analyze" /\ oracle.called /\ ~oracle.raised

\* C1: analyze switches to the syntax-tree fallback if and only if the Oracle
\* call failed or the recovered confidence c is below 0.5; with an answer and
\* c >= 0.5 (c = 0.5 and the default confidence included) the oracle-derived
\* map is returned.
C1_FallbackIffFailedOrBelowThreshold ==
    (op = "analyze" /\ oracle.called) =>
        /\ HasFallbackFlag <=> (oracle.raised \/ oracle.map.confidence < 5)
        /\ (~oracle.raised /\ oracle.map.confidence >= 5) => result.data = oracle.map

\* C2: when the Oracle Client rejects the call for its cost, analyze returns
\* a failed result with confidence 0 that carries the cost-limit error, not
\* a fallback result reported as success.
C2_CostLimitRejectionFails ==
    CostLimitRejected =>
        /\ ~result.success
        /\ result.confidence = 0
        /\ \E m \in 1..Len(result.error) :
                result.error[m] = "Request would exceed cost limit of $"

\* C3: when the Oracle call fails (error, timeout, retries exhausted) and
\* the target's syntax tree parses, analyze returns success with the fallback
\* map, an error naming the Oracle failure and metadata fallback=true; a
\* result derived from the oracle never carries the fallback flag.
C3_OracleFailureFallsBack ==
    /\ (OracleFailed /\ oracle.requested /\ ast_parse(args.snippet.content).ok) =>
            /\ result.success
            /\ result.data = _analyze_with_ast_fallback(args.snippet)
            /\ result.confidence = 3
            /\ Len(result.error) > 1 /\ result.error[1] = "LLM failed: "
            /\ HasFallbackFlag
    /\ (OracleAnswered /\ result.data = oracle.map) => ~HasFallbackFlag

\* the request timed out, the target parses and reads the undefined name z
C3_TimeoutFellBack ==
    /\ OracleFailed /\ oracle.timed_out
    /\ result.success
    /\ HasFallbackFlag
    /\ Len(result.data.variables) = 1
    /\ result.data.variables[1][1] = <<"z">>

\* C5: when analyze is called with a window_size argument w, the fragments
\* extracted for the Oracle are those of the window computed with w, so the
\* metadata's window_size and context_snippets describe the same window.
C5_WindowArgumentIsUsed ==
    (op = "analyze" /\ oracle.called /\ "window_size" \in DOMAIN args.kwargs) =>
        /\ result.metadata.window_size = args.kwargs.window_size
        /\ result.metadata.context_snippets =
              Len(_calculate_window_indices(args.snippet_index, Len(args.all_snippets),
                                            args.kwargs.window_size))

(***************************************************************************)
(* The precision filter as a state machine: one PrecisionFilter, to which  *)
(* custom rules are added and which filters small dependency maps against  *)
(* the fragments of the model.                                             *)
(***************************************************************************)
FilterNames ==
    {<<"p", "r", "i", "n", "t">>, <<"s", "e", "l", "f">>, <<"x">>, <<"E", "x", "c", "e", "p", "t", "i", "o", "n">>, <<"z">>, <<"_", "_", "i", "n", "i", "t", "_", "_">>}

EntryWith(confidence) == JObj(<<<<K_confidence, JNum(confidence)>>>>)

\* entries without a confidence and with confidence 0.2, 0.9 and 1.0
FilterEntries == {JObj(<<>>)} \cup {EntryWith(c) : c \in {2, 9, 10}}

InBucket(category, bucket, confidence) ==
    [EmptyMap(confidence, <<>>) EXCEPT ![category] = bucket]

\* the map of the module's own example, and a map with an entry per bucket
NoisyMap ==
    DependencyMap(<< <<<<"i">>, EntryWith(4)>>, <<<<"p", "r", "i", "n", "t">>, EntryWith(8)>>,
                     <<<<"u", "s", "e", "r", "_", "d", "a", "t", "a">>, EntryWith(9)>> >>,
                  <<>>, <<>>,
                  << <<<<"l", "e", "n">>, EntryWith(7)>>, <<<<"p", "r", "o", "c", "e", "s", "s", "_", "d", "a", "t", "a">>, EntryWith(9)>> >>,
                  7, <<>>)

MixedMap ==
    DependencyMap(<< <<<<"s", "e", "l", "f">>, EntryWith(9)>>, <<<<"z">>, EntryWith(10)>> >>,
                  << <<<<"E", "x", "c", "e", "p", "t", "i", "o", "n">>, EntryWith(9)>> >>,
                  << <<<<"o", "s">>, JObj(<<>>)>> >>,
                  << <<<<"f">>, EntryWith(10)>>, <<<<"_", "_", "i", "n", "i", "t", "_", "_">>, EntryWith(5)>> >>,
                  10, <<>>)

\* entries below, at and above the minimum confidence, and one without any
ThresholdMap ==
    DependencyMap(<<>>,
                  << <<<<"H", "e", "l", "p", "e", "r">>, EntryWith(3)>> >>,
                  << <<<<"o", "s">>, EntryWith(2)>>, <<<<"s", "y", "s">>, EntryWith(3)>>,
                     <<<<"r", "e">>, JObj(<<>>)>> >>,
                  <<>>,
                  5, <<>>)

\* ten imports, three of them below the minimum confidence
TenImports ==
    DependencyMap(<<>>, <<>>,
                  [m \in 1..10 |->
                        <<<<"m", Lowercase[m]>>, EntryWith(IF m <= 3 THEN 2 ELSE 9)>>],
                  <<>>,
                  7, <<>>)

FilterMaps ==
    {InBucket(Categories[c], << <<name, entry>> >>, 5) :
        c \in 1..4, name \in FilterNames, entry \in FilterEntries}
        \cup {EmptyMap(5, <<>>), NoisyMap, MixedMap, ThresholdMap, TenImports}

\* fragments with no definition, with a syntax error and with a definition of z
FilterContents == {SyntaxTrees[m].content : m \in {2, 3, 4}}

\* the filter functions a caller registers: suppress every entry, or none
FilterFunctions == {"suppress_all", "keep_all"}

MaxCustomRules == 1

\* precision_filter.filter_dependencies(dependency_map, snippet_content)
FilterDependencies(dependency_map, snippet_content) ==
    /\ op' = "filter_dependencies"
    /\ args' = [dependency_map |-> dependency_map, snippet_content |-> snippet_content]
    /\ result' = filter_dependencies(precision_filter.filter_rules, dependency_map,
                                     snippet_content)
    /\ UNCHANGED <<parserVars, clientVars, analyzerVars, filterVars, builderVars, validatorVars>>

\* precision_filter.create_custom_filter_rule(name, description,
\* filter_function, applies_to): setattr of the function, a rule appended
CreateCustomFilterRule(name, filter_function, applies_to) ==
    /\ Len(precision_filter.filter_rules) < Len(_initialize_filter_rules) + MaxCustomRules
    /\ op' = "create_custom_filter_rule"
    /\ args' = [name |-> name, filter_function |-> filter_function,
                applies_to |-> applies_to]
    /\ result' = FilterRule(<<"custom_", name>>, 5, applies_to)
    /\ precision_filter' =
            [filter_rules |-> Append(precision_filter.filter_rules, result'),
             custom_filters |->
                {f \in precision_filter.custom_filters : f.name # name}
                    \cup {[name |-> name, filter_function |-> filter_function]}]
    /\ UNCHANGED <<parserVars, clientVars, analyzerVars, builderVars, validatorVars>>

InitFilter ==
    /\ op = "init"
    /\ args = NoCall
    /\ result = NoCall
    /\ ParserInit
    /\ ClientInit
    /\ AnalyzerIdle
    /\ FilterInit
    /\ ValidatorInit
    /\ BuilderIdle

NextFilter ==
    \/ \E dependency_map \in FilterMaps : \E snippet_content \in FilterContents :
            FilterDependencies(dependency_map, snippet_content)
    \/ \E name \in {"strict", "quiet"} : \E filter_function \in FilterFunctions :
       \E applies_to \in {{"classes", "imports"}, {"variables", "classes", "imports", "functions"}} :
            CreateCustomFilterRule(name, filter_function, applies_to)

SpecFilter == InitFilter /\ [][NextFilter]_vars

\* C8: after filter_dependencies no entry named by the built-in name set
\* remains in any of the four buckets, whatever its confidence, and no entry
\* named self remains in the variables bucket.
C8_NoBuiltinNameRemains ==
    op = "filter_dependencies" =>
        /\ \A c \in 1..Len(Categories) :
           \A m \in 1..Len(result[Categories[c]]) :
                result[Categories[c]][m][1] \notin builtin_names
        /\ \A m \in 1..Len(result.variables) : result.variables[m][1] # <<"s", "e", "l", "f">>

(***************************************************************************)
(* The analyzers' dependency maps: an ImprovedContextAnalyzer makes a map  *)
(* of an oracle answer, of the target's syntax tree, of the tree and the   *)
(* detected patterns, and merges the map it holds with another one.        *)
(***************************************************************************)
MapOps == {"_parse_llm_response", "_analyze_with_ast_fallback", "_enhanced_ast_fallback",
           "_merge_dependency_maps"}

Fragments == [m \in 1..Len(SyntaxTrees) |-> [content |-> SyntaxTrees[m].content, index |-> 0]]

\* the context of a target: nothing, or a fragment with a decorator
Contexts == {<<>>, <<Fragments[5]>>}

\* self._enhanced_ast_fallback(snippet, [], complexity) for each fragment and
\* context, with the complexity of the fragment in that context
EnhancedTable ==
    [m \in 1..Len(Fragments) |->
        [context_snippets \in Contexts |->
            _enhanced_ast_fallback(Fragments[m], <<>>,
                                   _analyze_code_complexity(Fragments[m], context_snippets))]]

\* the maps a held map is merged with
MergeMaps ==
    {_parse_llm_response(a) : a \in Answers}
        \cup {EnhancedTable[m][<<>>] : m \in 1..Len(Fragments)}

\* self._parse_llm_response(llm_content)
ParseLlmResponse(llm_content) ==
    /\ calls < MaxCalls
    /\ op' = "_parse_llm_response"
    /\ args' = [llm_content |-> llm_content]
    /\ result' = MapOfParsed(ParseTable[llm_content])
    /\ parsing_stats' = Counted(parsing_stats, ParseTable[llm_content].counter)
    /\ calls' = calls + 1
    /\ UNCHANGED <<clientVars, analyzerVars, filterVars, builderVars, validatorVars>>

\* self._analyze_with_ast_fallback(snippet)
AstFallback(snippet) ==
    /\ op' = "_analyze_with_ast_fallback"
    /\ args' = [snippet |-> snippet]
    /\ result' = _analyze_with_ast_fallback(snippet)
    /\ UNCHANGED <<parserVars, clientVars, analyzerVars, filterVars, builderVars, validatorVars>>

\* self._enhanced_ast_fallback(snippet, [], complexity) for fragment m, with
\* the complexity of the target and its context
EnhancedAstFallback(m, context_snippets) ==
    /\ op' = "_enhanced_ast_fallback"
    /\ args' = [snippet |-> Fragments[m], context_snippets |-> context_snippets]
    /\ result' = EnhancedTable[m][context_snippets]
    /\ UNCHANGED <<parserVars, clientVars, analyzerVars, filterVars, builderVars, validatorVars>>

\* self._merge_dependency_maps(general_result, map2, prefer_higher_confidence)
MergeDependencyMaps(map2, prefer_higher_confidence) ==
    /\ op \in MapOps \ {"_merge_dependency_maps"}
    /\ op' = "_merge_dependency_maps"
    /\ args' = [map1 |-> result, map2 |-> map2,
                prefer_higher_confidence |-> prefer_higher_confidence]
    /\ result' = _merge_dependency_maps(result, map2, prefer_higher_confidence)
    /\ UNCHANGED <<parserVars, clientVars, analyzerVars, filterVars, builderVars, validatorVars>>

InitMaps ==
    /\ op = "init"
    /\ args = NoCall
    /\ result = NoCall
    /\ ParserInit
    /\ ClientInit
    /\ AnalyzerIdle
    /\ FilterInit
    /\ ValidatorInit
    /\ BuilderIdle

NextMaps ==
    \/ \E llm_content \in Answers : ParseLlmResponse(llm_content)
    \/ \E m \in 1..Len(Fragments) : AstFallback(Fragments[m])
    \/ \E m \in 1..Len(Fragments) : \E context_snippets \in Contexts :
            EnhancedAstFallback(m, context_snippets)
    \/ \E map2 \in MergeMaps : \E prefer_higher_confidence \in BOOLEAN :
            MergeDependencyMaps(map2, prefer_higher_confidence)

SpecMaps == InitMaps /\ [][NextMaps]_vars

BucketNames(bucket) == {bucket[m][1] : m \in 1..Len(bucket)}

\* C9: in every DependencyMap an analyzer returns (oracle-derived, syntax-tree
\* fallback, enhanced fallback, merge of two maps) no identifier is a key of
\* more than one of the four buckets.
C9_BucketsAreExclusive ==
    op \in MapOps =>
        \A c \in 1..Len(Categories) : \A d \in 1..Len(Categories) :
            c # d => BucketNames(result[Categories[c]])
                        \cap BucketNames(result[Categories[d]]) = {}


(***************************************************************************)
(* The builder as a state machine: one ContextBuilder, with or without the *)
(* Oracle, and its client; analyze called with the dependencies of the     *)
(* model while the network answers, fails or stays silent.                 *)
(***************************************************************************)
BuilderCollections == {Snippets(<<SyntaxTrees[1].content>>)}

BuilderNetwork ==
    {[kind |-> "ok", content |-> BuilderAnswers[m], total_tokens |-> 100] :
        m \in 1..Len(BuilderAnswers)}
        \cup {[kind |-> k, content |-> <<>>, total_tokens |-> 0] : k \in {"error", "timeout"}}

MaxBuilds == 2

\* the state after a call that did what `done` says
Built(done) ==
    /\ result' = done.result
    /\ session_cost' = done.client.session_cost
    /\ session_requests' = done.client.session_requests
    /\ cache' = done.client.cache
    /\ tasks' = tasks
    /\ oracle' = done.oracle

\* await builder.analyze(snippet, all_snippets, snippet_index, dependencies=...)
BuildContext(snippet, all_snippets, snippet_index, dependencies, net) ==
    /\ analyses < MaxBuilds
    /\ op' = "build_context"
    /\ args' = [snippet |-> snippet, all_snippets |-> all_snippets,
                snippet_index |-> snippet_index, dependencies |-> dependencies]
    /\ Built(ContextBuilder_analyze(Client, enable_llm, snippet, all_snippets,
                                    snippet_index, dependencies, net))
    /\ analyses' = analyses + 1
    /\ UNCHANGED <<self_window_size, parserVars, filterVars, builderVars, validatorVars>>

\* ContextBuilder(llm_client, enable_llm=...)
InitBuilder ==
    /\ op = "init"
    /\ args = NoCall
    /\ result = NoCall
    /\ ParserInit
    /\ ClientInit
    /\ AnalyzerIdle
    /\ FilterInit
    /\ ValidatorInit
    /\ enable_llm \in BOOLEAN

NextBuilder ==
    \/ \E all_snippets \in BuilderCollections :
       \E snippet_index \in (0 - 1)..Len(all_snippets) :
       \E m \in 1..Len(BuilderDependencies) :
       \E net \in BuilderNetwork :
            BuildContext(all_snippets[1], all_snippets, snippet_index,
                         BuilderDependencies[m], net)
    \/ ResetSessionStats

SpecBuilder == InitBuilder /\ [][NextBuilder]_vars

\* the text matches a deny-listed pattern
DenyListed(text) ==
    \E p \in 1..Len(DANGEROUS_PATTERNS) :
        re_search(DANGEROUS_PATTERNS[p], text).found

DenyListedTexts ==
    {PythonTexts[m].code : m \in {n \in 1..Len(PythonTexts) : DenyListed(PythonTexts[n].code)}}

MatchesDenyList(text) ==
    IF \E m \in 1..Len(PythonTexts) : PythonTexts[m].code = text
    THEN text \in DenyListedTexts
    ELSE DenyListed(text)

\* analyze returned a BuiltContext that was made from a candidate text
ContextWasBuilt ==
    op = "build_context" /\ result.success /\ result.metadata.method # "no_dependencies"

\* C10: every BuiltContext the builder returns obeys the safety gate, whether
\* it was assembled heuristically or taken from the Oracle's answer: when the
\* candidate text it was made from matches a deny-listed pattern, its
\* context_code is the placeholder and safety_validated is false; a returned
\* context_code with safety_validated true matches no deny-listed pattern, and
\* a context taken from the Oracle is the candidate that passed the gate.
C10_SafetyGateIsObeyed ==
    /\ ContextWasBuilt =>
            /\ MatchesDenyList(oracle.gated) =>
                    /\ result.data.context_code = RemovedForSafety
                    /\ ~result.data.safety_validated
            /\ result.metadata.method = "llm" =>
                    /\ result.data.context_code = oracle.gated
                    /\ oracle.gated = oracle.llm_context.code
    /\ (op = "build_context" /\ result.success /\ result.data.safety_validated) =>
            ~MatchesDenyList(result.data.context_code)

\* the Oracle's answer matched the deny list and was dropped, and the text
\* assembled in its place matched it too and was replaced
C10_UnsafeAssemblyReplaced ==
    /\ ContextWasBuilt
    /\ oracle.called /\ ~oracle.raised
    /\ MatchesDenyList(oracle.llm_context.code)
    /\ result.metadata.method = "heuristic_fallback"
    /\ MatchesDenyList(oracle.gated)
    /\ result.data.context_code = RemovedForSafety
    /\ ~result.data.safety_validated


(***************************************************************************)
(* The analyzer and the builder in sequence, as test_full_integration.py   *)
(* runs them: the data of the analysis are the builder's dependencies.     *)
(***************************************************************************)
K_processing_time == <<"p", "r", "o", "c", "e", "s", "s", "i", "n", "g", "_", "t", "i", "m", "e">>

K_error == <<"e", "r", "r", "o", "r">>

\* the characters of the messages a returned DependencyMap carries
MessageText(part) ==
    CASE part = "LLM failed, using AST fallback" -> <<"L", "L", "M", " ", "f", "a", "i", "l", "e", "d", ",", " ", "u", "s", "i", "n", "g", " ", "A", "S", "T", " ", "f", "a", "l", "l", "b", "a", "c", "k">>
      [] part = "Both LLM and AST analysis failed" -> <<"B", "o", "t", "h", " ", "L", "L", "M", " ", "a", "n", "d", " ", "A", "S", "T", " ", "a", "n", "a", "l", "y", "s", "i", "s", " ", "f", "a", "i", "l", "e", "d">>

\* DependencyMap.dict()
DictOf(dependency_map) ==
    JObj(<<<<K_variables, JObj(dependency_map.variables)>>,
           <<K_classes, JObj(dependency_map.classes)>>,
           <<K_imports, JObj(dependency_map.imports)>>,
           <<K_functions, JObj(dependency_map.functions)>>,
           <<K_confidence, JNum(dependency_map.confidence)>>,
           <<K_processing_time, JNum(0)>>,
           <<K_error, IF dependency_map.error = <<>> THEN JNull
                      ELSE JStr(MessageText(dependency_map.error[1]))>>>>)

\* dependencies = analysis_result.data if analysis_result.success else {}
DependenciesOf(analysis_result) ==
    IF analysis_result.success THEN DictOf(analysis_result.data) ELSE JObj(<<>>)

\* build_result = await builder.analyze(target, snippets, index,
\* dependencies=dependencies) after the analysis of the same target
BuildFromAnalysis(net) ==
    /\ op = "analyze"
    /\ op' = "build_from_analysis"
    /\ args' = [snippet |-> args.snippet, all_snippets |-> args.all_snippets,
                snippet_index |-> args.snippet_index,
                dependencies |-> DependenciesOf(result),
                analysis |-> result, analysis_oracle |-> oracle]
    /\ Built(ContextBuilder_analyze(Client, enable_llm, args.snippet, args.all_snippets,
                                    args.snippet_index, DependenciesOf(result), net))
    /\ UNCHANGED <<self_window_size, analyses, parserVars, filterVars, builderVars, validatorVars>>

InitPipeline ==
    /\ op = "init"
    /\ args = NoCall
    /\ result = NoCall
    /\ ParserInit
    /\ ClientInit
    /\ AnalyzerIdle
    /\ FilterInit
    /\ ValidatorInit
    /\ enable_llm \in BOOLEAN

NextPipeline ==
    \/ \E all_snippets \in Collections :
       \E snippet_index \in 0..(Len(all_snippets) - 1) :
       \E net \in Network :
            Analyze(all_snippets[snippet_index + 1], all_snippets, snippet_index,
                    NoKwargs, net)
    \/ \E net \in BuilderNetwork : BuildFromAnalysis(net)

SpecPipeline == InitPipeline /\ [][NextPipeline]_vars

\* no fragment of the collection assigns to the name
NowhereDefined(name, all_snippets) ==
    \A m \in 1..Len(all_snippets) : name \notin ast_parse(all_snippets[m].content).store

\* r'z = \d+$', matched from the start of the text
IntegerAssignmentToZ == RSeq(<<RLit(<<"z", " ", "=", " ">>), RPlus(RChr(Digits)), REnd>>)

\* the builder ran on the analysis of y = z + 1, z defined nowhere, and the
\* Oracle answered neither the analyzer nor the builder
UnknownZWithoutOracle ==
    /\ op = "build_from_analysis"
    /\ args.snippet.content = SyntaxTrees[1].content
    /\ NowhereDefined(<<"z">>, args.all_snippets)
    /\ args.analysis_oracle.called /\ args.analysis_oracle.raised
    /\ oracle.called => oracle.raised

\* C11: for the target y = z + 1 with z defined in no fragment and the
\* Oracle unavailable, the fallback analysis reports z as a variable of
\* unknown origin at confidence 0.3, and the builder given that analysis
\* returns an assignment of a literal integer to z as its context.
C11_UnknownVariableGetsALiteral ==
    UnknownZWithoutOracle =>
        /\ args.analysis.success
        /\ args.analysis.confidence = 3
        /\ Len(args.analysis.data.variables) = 1
        /\ args.analysis.data.variables[1][1] = <<"z">>
        /\ JGet(args.analysis.data.variables[1][2].o, K_type, JNull) = JStr(K_unknown)
        /\ JGet(args.analysis.data.variables[1][2].o, K_defined_in_snippet, JStr(<<>>)) = JNull
        /\ JGet(args.analysis.data.variables[1][2].o, K_confidence, JNull) = JNum(3)
        /\ result.success
        /\ re_match(IntegerAssignmentToZ, result.data.context_code).found


(***************************************************************************)
(* The client as a state machine: one GroqLLMClient with the default       *)
(* configuration and an empty cache directory; generate called directly    *)
(* with a prompt and a system message while the network answers, fails or  *)
(* stays silent.                                                           *)
(***************************************************************************)
\* a prompt given as text
TextPrompt(text) == [text |-> text, words |-> WordCount(text)]

\* prompts of 2 and 3 words, and one of 34 words, whose estimated cost does
\* not fit the limit after one answered request
ClientPrompts ==
    {TextPrompt(<<"l", "i", "s", "t", " ", "i", "m", "p", "o", "r", "t", "s">>), TextPrompt(<<"n", "a", "m", "e", " ", "t", "h", "e", " ", "v", "a", "r", "i", "a", "b", "l", "e", "s">>),
     TextPrompt(<<"a", " ", "b", " ", "c", " ", "d", " ", "e", " ", "f", " ", "g", " ", "h", " ", "i", " ", "j", " ", "k", " ", "l", " ", "m", " ", "n", " ", "o", " ", "p", " ", "q", " ", "r", " ", "s", " ", "t", " ", "u", " ", "v", " ", "w", " ", "x", " ", "y", " ", "z", " ", "a", " ", "b", " ", "c", " ", "d", " ", "e", " ", "f", " ", "g", " ", "h">>)}

\* system_message=None, which the key's serialization writes as null
NoSystemMessage == "null"

ClientSystemMessages == {NoSystemMessage, SystemMessage}

ClientNetwork ==
    {[kind |-> "ok", content |-> a, total_tokens |-> 100] : a \in {<<"i", "m", "p", "o", "r", "t", " ", "o", "s">>, <<"z">>}}
        \cup {[kind |-> k, content |-> <<>>, total_tokens |-> 0] : k \in {"error", "timeout"}}

\* await client.generate(prompt, system_message); the arguments keep the
\* client the call started from
Generate(prompt, system_message, net) ==
    /\ op' = "generate"
    /\ args' = [prompt |-> prompt, system_message |-> system_message, net |-> net,
                client |-> Client]
    /\ result' = generate(Client, prompt, system_message, net)
    /\ session_cost' = result'.client.session_cost
    /\ session_requests' = result'.client.session_requests
    /\ cache' = result'.client.cache
    /\ UNCHANGED <<tasks, parserVars, analyzerVars, filterVars, builderVars, validatorVars>>

\* GroqLLMClient(api_key, LLMConfig())
InitClient ==
    /\ op = "init"
    /\ args = NoCall
    /\ result = NoCall
    /\ ParserInit
    /\ ClientInit
    /\ AnalyzerIdle
    /\ FilterInit
    /\ ValidatorInit
    /\ BuilderIdle

NextClient ==
    \/ \E prompt \in ClientPrompts :
       \E system_message \in ClientSystemMessages :
       \E net \in ClientNetwork :
            Generate(prompt, system_message, net)
    \/ ResetSessionStats

SpecClient == InitClient /\ [][NextClient]_vars

\* the entries the cache held under the call's key when the call started
StoredEntries ==
    _load_from_cache(args.client, _generate_cache_key(args.prompt, args.system_message))

\* the call leaves the session counters as they were
CountersUnchanged ==
    /\ session_cost = args.client.session_cost
    /\ session_requests = args.client.session_requests

\* C12: a generate call whose cache key has a stored entry returns the stored
\* content with cached true, sends no request and leaves session_cost and
\* session_requests unchanged, whatever the session cost is: the cache is
\* read before the cost limit is checked.
C12_CacheHitBeforeCostCheck ==
    (op = "generate" /\ StoredEntries # {}) =>
        /\ ~result.raised
        /\ result.cached
        /\ \E e \in StoredEntries : result.content = e.content
        /\ ~result.requested
        /\ CountersUnchanged
        /\ cache = args.client.cache

\* a stored answer was returned to a call whose estimated cost no longer
\* fitted the session's limit
C12_HitBeyondTheLimit ==
    /\ op = "generate"
    /\ StoredEntries # {}
    /\ ~_check_cost_limit(args.client, EstimatedCost(args.prompt))
    /\ result.cached
    /\ ~result.requested
    /\ CountersUnchanged


\* the two keys agree on prompt, model, temperature and max_tokens
SameRequest(k1, k2) ==
    /\ k1.prompt = k2.prompt
    /\ k1.model = k2.model
    /\ k1.temperature = k2.temperature
    /\ k1.max_tokens = k2.max_tokens

\* the entries stored, when the call started, by calls with the same prompt,
\* model, temperature and max_tokens
SameRequestEntries ==
    {e \in args.client.cache :
        SameRequest(e.key, _generate_cache_key(args.prompt, args.system_message))}

\* C13: the cache key depends on prompt, model, temperature and max_tokens
\* only: a generate call that agrees on the four with an earlier answered
\* call is a cache hit returning that call's entry, whatever the two system
\* messages are, and a cache hit returns an entry stored for the same four.
C13_KeyOfPromptAndConfiguration ==
    op = "generate" =>
        /\ SameRequestEntries # {} =>
                /\ ~result.raised
                /\ result.cached
        /\ (~result.raised /\ result.cached) =>
                \E e \in SameRequestEntries : result.content = e.content


\* the call found nothing in the cache and its estimated cost did not fit
\* what the session's limit leaves
MissOverTheLimit ==
    /\ op = "generate"
    /\ StoredEntries = {}
    /\ args.client.session_cost + EstimatedCost(args.prompt) > max_cost_per_session

\* C14: a generate call that misses the cache sends a request only if
\* session_cost plus the estimated cost of the prompt does not exceed
\* max_cost_per_session; a rejected call raises without a request and leaves
\* session_cost, session_requests and the cache unchanged.
C14_NoRequestOverTheLimit ==
    /\ (op = "generate" /\ StoredEntries = {} /\ result.requested) =>
            args.client.session_cost + EstimatedCost(args.prompt) <= max_cost_per_session
    /\ MissOverTheLimit =>
            /\ result.raised
            /\ ~result.requested
            /\ CountersUnchanged
            /\ cache = args.client.cache

\* a call was rejected for its estimated cost while the session's cost was
\* still within the limit, and a call of a shorter prompt would have gone out
C14_RejectedForTheEstimate ==
    /\ MissOverTheLimit
    /\ args.client.session_cost <= max_cost_per_session
    /\ args.client.session_cost > 0
    /\ result.raised
    /\ ~result.requested
    /\ CountersUnchanged


\* the error of the request the failed Oracle call sent
RequestError ==
    IF oracle.timed_out THEN <<"Timeout after 30.0s">> ELSE <<"Groq API error">>

\* C15: when the request of an Oracle call fails or times out and no attempt
\* of the retry logic succeeds, the call raises a single failure whose message
\* names the error of the last request attempt: the error of the network or
\* the timeout.
C15_FailureNamesTheRequestError ==
    (OracleFailed /\ oracle.requested) =>
        oracle.error = <<"All 3 attempts failed. Last error: ">> \o RequestError


(***************************************************************************)
(* Concurrent calls on one client: asyncio.gather on generate coroutines.  *)
(* A coroutine runs without interruption up to the await of its request    *)
(* and again from the request's return to its end; the event loop resumes  *)
(* the waiting coroutines in any order.                                    *)
(***************************************************************************)
MaxTasks == 3

TaskPrompts == {TextPrompt(<<"l", "i", "s", "t", " ", "i", "m", "p", "o", "r", "t", "s">>), TextPrompt(<<"n", "a", "m", "e", " ", "t", "h", "e", " ", "v", "a", "r", "i", "a", "b", "l", "e", "s">>)}

TaskNetwork ==
    {[kind |-> "ok", content |-> <<"z">>, total_tokens |-> n] : n \in {50, 100}}
        \cup {[kind |-> "error", content |-> <<>>, total_tokens |-> 0]}

\* what a coroutine that ended returned or raised
Outcome(done) ==
    [raised |-> done.raised, cached |-> done.cached, requested |-> done.requested,
     total_tokens |-> done.total_tokens]

NoOutcome == [raised |-> FALSE, cached |-> FALSE, requested |-> FALSE, total_tokens |-> 0]

\* the client as the coroutine saw it before its request
SelfBeforeAwait(task) == task.client

\* the client the statements after the await read: self as it is then
SelfAfterAwait(task) == Client

Finished(task) == task.pc \in {"done", "raised"}

\* await asyncio.gather(*[client.generate(p) for p in prompts]), up to the
\* creation of the coroutines; the previous gather has returned
Gather(prompts) ==
    /\ \A t \in DOMAIN tasks.running : Finished(tasks.running[t])
    /\ op' = "gather"
    /\ args' = [prompts |-> prompts]
    /\ result' = NoCall
    /\ tasks' = [initial |-> Client,
                 running |-> [t \in DOMAIN prompts |->
                                [pc |-> "created", prompt |-> prompts[t], client |-> Client,
                                 outcome |-> NoOutcome]]]
    /\ UNCHANGED <<session_cost, session_requests, cache, parserVars, analyzerVars,
                   filterVars, builderVars, validatorVars>>

\* how a coroutine that starts ends when it sends no request
WithoutRequest(task) ==
    generate(Client, task.prompt, NoSystemMessage,
             [kind |-> "error", content |-> <<>>, total_tokens |-> 0])

\* generate from its first statement to the await of _make_groq_request, or
\* to its end when the cache answers or the cost limit rejects
TaskStart(t) ==
    /\ t \in DOMAIN tasks.running
    /\ tasks.running[t].pc = "created"
    /\ op' = "task_start"
    /\ args' = [task |-> t]
    /\ result' = NoCall
    /\ tasks' = [tasks EXCEPT !.running[t] =
                    IF WithoutRequest(tasks.running[t]).requested
                    THEN [@ EXCEPT !.pc = "awaiting", !.client = Client]
                    ELSE [@ EXCEPT !.pc = IF WithoutRequest(tasks.running[t]).raised
                                          THEN "raised" ELSE "done",
                                   !.client = Client,
                                   !.outcome = Outcome(WithoutRequest(tasks.running[t]))]]
    /\ UNCHANGED <<session_cost, session_requests, cache, parserVars, analyzerVars,
                   filterVars, builderVars, validatorVars>>

\* generate from the return of _make_groq_request to its end
Resumed(task, net) ==
    AfterRequest(SelfAfterAwait(task),
                 _generate_cache_key(task.prompt, NoSystemMessage), net)

TaskResume(t, net) ==
    /\ t \in DOMAIN tasks.running
    /\ tasks.running[t].pc = "awaiting"
    /\ op' = "task_resume"
    /\ args' = [task |-> t, net |-> net]
    /\ result' = NoCall
    /\ session_cost' = Resumed(tasks.running[t], net).client.session_cost
    /\ session_requests' = Resumed(tasks.running[t], net).client.session_requests
    /\ cache' = Resumed(tasks.running[t], net).client.cache
    /\ tasks' = [tasks EXCEPT !.running[t] =
                    [@ EXCEPT !.pc = IF net.kind = "ok" THEN "done" ELSE "raised",
                              !.outcome = Outcome(Resumed(tasks.running[t], net))]]
    /\ UNCHANGED <<parserVars, analyzerVars, filterVars, builderVars, validatorVars>>

RECURSIVE PromptLists(_)
PromptLists(n) ==
    IF n = 0 THEN {<<>>}
    ELSE {Append(ps, p) : ps \in PromptLists(n - 1), p \in TaskPrompts}

NextTasks ==
    \/ \E n \in 1..MaxTasks : \E prompts \in PromptLists(n) : Gather(prompts)
    \/ \E t \in 1..MaxTasks : TaskStart(t)
    \/ \E t \in 1..MaxTasks : \E net \in TaskNetwork : TaskResume(t, net)

SpecTasks == InitClient /\ [][NextTasks]_vars

RECURSIVE CostsOf(_)
CostsOf(running) ==
    IF running = <<>> THEN 0
    ELSE _calculate_cost(Head(running).outcome.total_tokens) + CostsOf(Tail(running))

\* every coroutine of the gather missed the cache, sent its request and
\* returned the answer
AllAnswered ==
    /\ tasks.running # <<>>
    /\ \A t \in DOMAIN tasks.running :
            /\ tasks.running[t].pc = "done"
            /\ tasks.running[t].outcome.requested

\* C16: when k concurrent generate calls on one client all miss the cache and
\* all succeed, then in every interleaving session_requests ends at its
\* initial value plus k and session_cost at its initial value plus the sum
\* of the costs of the k requests: no increment is lost.
C16_NoLostIncrement ==
    AllAnswered =>
        /\ session_requests = tasks.initial.session_requests + Len(tasks.running)
        /\ session_cost = tasks.initial.session_cost + CostsOf(tasks.running)

\* two or more coroutines were all waiting for their requests at the same
\* time, on a client that had counted requests before, and all were answered
C16_AnsweredWhileOverlapping ==
    /\ AllAnswered
    /\ Len(tasks.running) >= 2
    /\ tasks.initial.session_requests > 0
    /\ \A t \in DOMAIN tasks.running : tasks.running[t].client = tasks.initial


\* analyze returned the context the heuristic assembled
HeuristicallyAssembled == ContextWasBuilt /\ result.metadata.method # "llm"

\* the bucket of an included dependency: 1 imports, 2 variables, 3 functions,
\* 4 classes
BucketOf(label) ==
    IF StartsWith(label, 1, <<"i", "m", "p", "o", "r", "t", ":">>) THEN 1
    ELSE IF StartsWith(label, 1, <<"v", "a", "r", "i", "a", "b", "l", "e", ":">>) THEN 2
    ELSE IF StartsWith(label, 1, <<"f", "u", "n", "c", "t", "i", "o", "n", ":">>) THEN 3
    ELSE 4

\* the statements the entries of a bucket stand for
BucketStatements(dependencies, bucket) ==
    IF bucket = 1
    THEN {JGet(CategoryOf(dependencies, K_imports)[m][2].o, K_import_statement,
               JStr(<<"i", "m", "p", "o", "r", "t", " ">> \o CategoryOf(dependencies, K_imports)[m][1])).s :
            m \in DOMAIN CategoryOf(dependencies, K_imports)}
    ELSE IF bucket = 2
    THEN {VariableLine(CategoryOf(dependencies, K_variables)[m][1],
                       JGet(CategoryOf(dependencies, K_variables)[m][2].o, K_definition, None),
                       JGet(CategoryOf(dependencies, K_variables)[m][2].o, K_type,
                            JStr(K_unknown))) :
            m \in DOMAIN CategoryOf(dependencies, K_variables)}
    ELSE {JGet(CategoryOf(dependencies, IF bucket = 3 THEN K_functions ELSE K_classes)[m][2].o,
               K_definition, JStr(<<>>)).s :
            m \in DOMAIN CategoryOf(dependencies, IF bucket = 3 THEN K_functions ELSE K_classes)}

\* the statements of the assembly come bucket after bucket, each one from the
\* bucket of its label, and the assembled text is these statements joined
OrderedByBucket(built, dependencies, candidate, included) ==
    /\ included = built.dependencies_included
    /\ Len(built.context_lines) = Len(included)
    /\ candidate = Join(built.context_lines, <<"\n", "\n">>)
    /\ \A i \in DOMAIN included : \A j \in DOMAIN included :
            i < j => BucketOf(included[i]) <= BucketOf(included[j])
    /\ \A i \in DOMAIN included :
            built.context_lines[i] \in BucketStatements(dependencies, BucketOf(included[i]))

WithoutRepetition(context_lines) ==
    \A i \in DOMAIN context_lines : \A j \in DOMAIN context_lines :
        i # j => context_lines[i] # context_lines[j]

\* C18: a heuristically assembled context contains no statement twice: when
\* two entries, of one bucket or of two, yield the same statement, the
\* statement is in the assembled text once.
C18_NoStatementTwice ==
    HeuristicallyAssembled =>
        WithoutRepetition(AssembledFrom(args.dependencies).context_lines)


\* C19: two invocations of the builder with the same dependency map, target
\* and fragment list return the same context_code, for every map, with the
\* Oracle synthesis enabled as it is by default.
C19_SameInputsSameContext ==
    [][(/\ op = "build_context" /\ op' = "build_context"
        /\ enable_llm
        /\ args' = args
        /\ result.success /\ result'.success)
            => result'.data.context_code = result.data.context_code]_vars


\* C20: the syntax_valid flag of the BuiltContext the heuristic build returns
\* tells whether the returned context_code parses, in every case: for a text
\* that passed the first check, for a text returned after the repairs and
\* their one re-check, and for the text the safety gate put in place of the
\* assembly.
C20_SyntaxFlagOfTheReturnedText ==
    HeuristicallyAssembled =>
        result.data.syntax_valid = _validate_context_syntax(result.data.context_code)


\* the rules added at runtime whose filter function suppresses every entry
SuppressingRules ==
    {m \in DOMAIN precision_filter.filter_rules :
        /\ Len(precision_filter.filter_rules[m].name) = 2
        /\ precision_filter.filter_rules[m].name[1] = "custom_"
        /\ \E f \in precision_filter.custom_filters :
                /\ f.name = precision_filter.filter_rules[m].name[2]
                /\ f.filter_function = "suppress_all"}

NamesOf(bucket) == {bucket[m][1] : m \in DOMAIN bucket}

\* C21: a rule added through create_custom_filter_rule takes effect in
\* filter_dependencies: an entry of a bucket the rule applies to, for which
\* the rule's filter function says suppress, is absent from the filtered map.
C21_CustomRuleTakesEffect ==
    op = "filter_dependencies" =>
        \A m \in SuppressingRules :
        \A category \in precision_filter.filter_rules[m].applies_to :
            NamesOf(result[category]) = {}


\* details.get('confidence', 0.5), in tenths
ConfidenceOf(details) == JGet(details.o, K_confidence, JNum(5)).n

\* a rule other than the minimum-confidence rule suppresses the entry
OtherRuleSuppresses(item, category) ==
    \E m \in DOMAIN precision_filter.filter_rules :
        /\ precision_filter.filter_rules[m].name # <<"low_confidence">>
        /\ precision_filter.filter_rules[m].enabled
        /\ category \in precision_filter.filter_rules[m].applies_to
        /\ ShouldFilter(precision_filter.filter_rules[m], item[1], ConfidenceOf(item[2]),
                        category, _extract_local_definitions(args.snippet_content))

Items(bucket) == {bucket[m] : m \in DOMAIN bucket}

\* C22: after filter_dependencies no entry of any of the four buckets has a
\* confidence below 0.3, an entry without a confidence counting as 0.5, and
\* every entry of the input with a confidence of at least 0.3 that no other
\* rule suppresses is kept as it was in the same bucket.
C22_MinimumConfidence ==
    op = "filter_dependencies" =>
        \A c \in DOMAIN Categories :
            /\ \A item \in Items(result[Categories[c]]) : ConfidenceOf(item[2]) >= 3
            /\ \A item \in Items(args.dependency_map[Categories[c]]) :
                    (ConfidenceOf(item[2]) >= 3 /\ ~OtherRuleSuppresses(item, Categories[c]))
                        => item \in Items(result[Categories[c]])

\* a map with imports below and at the minimum confidence and one without a
\* confidence was filtered: the first is gone, the other two are kept
C22_ImportsAroundTheMinimum ==
    /\ op = "filter_dependencies"
    /\ args.dependency_map = ThresholdMap
    /\ NamesOf(result.imports) = {<<"s", "y", "s">>, <<"r", "e">>}
    /\ NamesOf(result.classes) = {<<"H", "e", "l", "p", "e", "r">>}


\* more than 30% of the entries of the input were removed
MuchRemoved(original_count, filtered_count) ==
    original_count > 0 /\ (original_count - filtered_count) * 10 > 3 * original_count

\* the confidence of the filtered map, given the confidence c of the input
ConfidenceAfter(c, original_count, filtered_count, confidence) ==
    /\ MuchRemoved(original_count, filtered_count) => confidence = Min(10, c + 1)
    /\ ~MuchRemoved(original_count, filtered_count) => confidence = c
    /\ confidence >= 0 /\ confidence <= 10
    /\ confidence >= c

\* C23: filter_dependencies sets the aggregate confidence to min(1.0, c + 0.1)
\* when more than 30% of the entries of the input were removed and leaves it
\* at the confidence c of the input otherwise, also when exactly 30% were
\* removed and when the input has no entry; the result is within [0, 1] and
\* not below c.
C23_ConfidenceBonus ==
    op = "filter_dependencies" =>
        ConfidenceAfter(args.dependency_map.confidence, CountOf(args.dependency_map),
                        CountOf(result), result.confidence)

\* exactly three of ten entries were removed and the confidence stayed
C23_ExactlyThirtyPercent ==
    /\ op = "filter_dependencies"
    /\ CountOf(args.dependency_map) = 10
    /\ CountOf(result) = 7
    /\ result.confidence = args.dependency_map.confidence

(***************************************************************************)
(* snippets/validator.py and snippets/enhanced_validator.py.  A snippet    *)
(* runs in a thread of its own, inside sandbox_env, which replaces the     *)
(* process-wide builtins.input and builtins.open while the snippet runs.   *)
(* A process is the record of builtins and threads; a function of          *)
(* builtins is Original or the stub of one thread.                         *)
(***************************************************************************)
\* the programs of the model: whether ast.parse accepts the text, what
\* normalize_snippet makes of it, and how its execution ends: it returns,
\* raises, returns after the caller's timeout (slow) or never (hangs)
Programs ==
    <<
      \* z = 2
      [code |-> <<"z", " ", "=", " ", "2">>,
       ok |-> TRUE,
       normalized |-> <<"z", " ", "=", " ", "2">>,
       runs |-> "returns"],
      \* y = z + 1
      [code |-> <<"y", " ", "=", " ", "z", " ", "+", " ", "1">>,
       ok |-> TRUE,
       normalized |-> <<"y", " ", "=", " ", "z", " ", "+", " ", "1">>,
       runs |-> "raises"],
      \* def f(:
      [code |-> <<"d", "e", "f", " ", "f", "(", ":">>,
       ok |-> FALSE,
       normalized |-> <<"d", "e", "f", " ", "f", "(", ":">>,
       runs |-> "none"],
      \* # note
      [code |-> <<"#", " ", "n", "o", "t", "e">>,
       ok |-> TRUE,
       normalized |-> <<"#", " ", "n", "o", "t", "e">>,
       runs |-> "returns"],
      \* while True: pass
      [code |-> <<"w", "h", "i", "l", "e", " ", "T", "r", "u", "e", ":", " ", "p", "a", "s", "s">>,
       ok |-> TRUE,
       normalized |-> <<"w", "h", "i", "l", "e", " ", "T", "r", "u", "e", ":", " ", "p", "a", "s", "s">>,
       runs |-> "hangs"],
      \*     y = 1
      [code |-> <<" ", " ", " ", " ", "y", " ", "=", " ", "1">>,
       ok |-> FALSE,
       normalized |-> <<"d", "e", "f", " ", "s", "n", "i", "p", "p", "e", "t", "_", "f", "u", "n", "c", "t", "i", "o", "n", "(", ")", ":", "\n", " ", " ", " ", " ", "y", " ", "=", " ", "1", "\n", "\n", "s", "n", "i", "p", "p", "e", "t", "_", "f", "u", "n", "c", "t", "i", "o", "n", "(", ")">>,
       runs |-> "none"],
      \* import time; time.sleep(1)
      [code |-> <<"i", "m", "p", "o", "r", "t", " ", "t", "i", "m", "e", ";", " ", "t", "i", "m", "e", ".", "s", "l", "e", "e", "p", "(", "1", ")">>,
       ok |-> TRUE,
       normalized |-> <<"i", "m", "p", "o", "r", "t", " ", "t", "i", "m", "e", ";", " ", "t", "i", "m", "e", ".", "s", "l", "e", "e", "p", "(", "1", ")">>,
       runs |-> "slow"],
      \* def snippet_function():\n    y = 1\n\nsnippet_function()
      [code |-> <<"d", "e", "f", " ", "s", "n", "i", "p", "p", "e", "t", "_", "f", "u", "n", "c", "t", "i", "o", "n", "(", ")", ":", "\n", " ", " ", " ", " ", "y", " ", "=", " ", "1", "\n", "\n", "s", "n", "i", "p", "p", "e", "t", "_", "f", "u", "n", "c", "t", "i", "o", "n", "(", ")">>,
       ok |-> TRUE,
       normalized |-> <<"d", "e", "f", " ", "s", "n", "i", "p", "p", "e", "t", "_", "f", "u", "n", "c", "t", "i", "o", "n", "(", ")", ":", "\n", " ", " ", " ", " ", "y", " ", "=", " ", "1", "\n", "\n", "s", "n", "i", "p", "p", "e", "t", "_", "f", "u", "n", "c", "t", "i", "o", "n", "(", ")">>,
       runs |-> "returns"],
      \* z = 2\n\nz = 2
      [code |-> <<"z", " ", "=", " ", "2", "\n", "\n", "z", " ", "=", " ", "2">>,
       ok |-> TRUE,
       normalized |-> <<"z", " ", "=", " ", "2", "\n", "\n", "z", " ", "=", " ", "2">>,
       runs |-> "returns"],
      \* z = 2\n\ny = z + 1
      [code |-> <<"z", " ", "=", " ", "2", "\n", "\n", "y", " ", "=", " ", "z", " ", "+", " ", "1">>,
       ok |-> TRUE,
       normalized |-> <<"z", " ", "=", " ", "2", "\n", "\n", "y", " ", "=", " ", "z", " ", "+", " ", "1">>,
       runs |-> "returns"],
      \* z = 2\n\ndef f(:
      [code |-> <<"z", " ", "=", " ", "2", "\n", "\n", "d", "e", "f", " ", "f", "(", ":">>,
       ok |-> FALSE,
       normalized |-> <<"z", " ", "=", " ", "2", "\n", "\n", "d", "e", "f", " ", "f", "(", ":">>,
       runs |-> "none"],
      \* z = 2\n\n# note
      [code |-> <<"z", " ", "=", " ", "2", "\n", "\n", "#", " ", "n", "o", "t", "e">>,
       ok |-> TRUE,
       normalized |-> <<"z", " ", "=", " ", "2", "\n", "\n", "#", " ", "n", "o", "t", "e">>,
       runs |-> "returns"],
      \* z = 2\n\nwhile True: pass
      [code |-> <<"z", " ", "=", " ", "2", "\n", "\n", "w", "h", "i", "l", "e", " ", "T", "r", "u", "e", ":", " ", "p", "a", "s", "s">>,
       ok |-> TRUE,
       normalized |-> <<"z", " ", "=", " ", "2", "\n", "\n", "w", "h", "i", "l", "e", " ", "T", "r", "u", "e", ":", " ", "p", "a", "s", "s">>,
       runs |-> "hangs"],
      \* z = 2\n\n    y = 1
      [code |-> <<"z", " ", "=", " ", "2", "\n", "\n", " ", " ", " ", " ", "y", " ", "=", " ", "1">>,
       ok |-> FALSE,
       normalized |-> <<"z", " ", "=", " ", "2", "\n", "\n", " ", " ", " ", " ", "y", " ", "=", " ", "1">>,
       runs |-> "none"],
      \* z = 2\n\nimport time; time.sleep(1)
      [code |-> <<"z", " ", "=", " ", "2", "\n", "\n", "i", "m", "p", "o", "r", "t", " ", "t", "i", "m", "e", ";", " ", "t", "i", "m", "e", ".", "s", "l", "e", "e", "p", "(", "1", ")">>,
       ok |-> TRUE,
       normalized |-> <<"z", " ", "=", " ", "2", "\n", "\n", "i", "m", "p", "o", "r", "t", " ", "t", "i", "m", "e", ";", " ", "t", "i", "m", "e", ".", "s", "l", "e", "e", "p", "(", "1", ")">>,
       runs |-> "slow"]
    >>

ProgramOf(code) == Programs[CHOOSE m \in 1..Len(Programs) : Programs[m].code = code]

\* classify(code)['has_code']: a line that is neither blank nor a comment
has_code(code) ==
    \E ln \in {SplitOn(code, "\n", <<>>)[m] : m \in 1..Len(SplitOn(code, "\n", <<>>))} :
        Strip(ln) # <<>> /\ Strip(ln)[1] # "#"

\* validate: normalized_code, normalized only when ast.parse(code) raises
code_to_validate(code, normalize) ==
    IF normalize /\ ~ProgramOf(code).ok THEN ProgramOf(code).normalized ELSE code

\* ValidationResult(status=...)
ValidationResult(status) == [status |-> status]

\* safe_input and safe_open of the sandbox_env entered by thread t
Safe(t) == [safe |-> TRUE, thread |-> t]

\* sandbox_env from its start to its yield, in a new thread that runs a
\* program ending as `runs` says
Entered(process, runs) ==
    [builtins |-> [input |-> Safe(Len(process.threads) + 1),
                   open |-> Safe(Len(process.threads) + 1)],
     threads |-> Append(process.threads,
                        [pc |-> "exec", runs |-> runs,
                         original_input |-> process.builtins.input,
                         original_open |-> process.builtins.open])]

\* the finally block of sandbox_env in thread t
Left(process, t) ==
    [builtins |-> [input |-> process.threads[t].original_input,
                   open |-> process.threads[t].original_open],
     threads |-> [process.threads EXCEPT ![t].pc = "done"]]

\* t.start(), t.join(timeout) and the status read from the thread, when no
\* other thread leaves its sandbox during the call
Joined(process, runs) ==
    CASE runs = "returns" ->
            [status |-> "ok", process |-> Left(Entered(process, runs), Len(process.threads) + 1)]
      [] runs = "raises" ->
            [status |-> "runtime_error",
             process |-> Left(Entered(process, runs), Len(process.threads) + 1)]
      [] OTHER ->
            [status |-> "timeout", process |-> Entered(process, runs)]

\* validate after the normalization
Checked(code, process) ==
    IF ~has_code(code) THEN [status |-> "no_code", process |-> process]
    ELSE IF ~ProgramOf(code).ok THEN [status |-> "syntax_error", process |-> process]
    ELSE Joined(process, ProgramOf(code).runs)

\* validate(code, normalize=normalize) in the process `process`: the status
\* of the ValidationResult and the process afterwards
validate(code, normalize, process) == Checked(code_to_validate(code, normalize), process)

\* EnhancedValidationResult(...); None is NoCall or the empty text
EnhancedValidationResult(base_result, enhanced_result, llm_analysis_used, llm_analysis_success, context_added, context_code, dependencies_found, confidence, error_message) ==
    [base_result |-> base_result, enhanced_result |-> enhanced_result,
     llm_analysis_used |-> llm_analysis_used,
     llm_analysis_success |-> llm_analysis_success, context_added |-> context_added,
     context_code |-> context_code, dependencies_found |-> dependencies_found,
     confidence |-> confidence, error_message |-> error_message]

\* EnhancedValidationResult(base_result=base_result)
BaseOnly(base_result) ==
    EnhancedValidationResult(base_result, NoCall, FALSE, FALSE, FALSE, <<>>, NoCall, 0, <<>>)

\* EnhancedValidationResult.success_improved
success_improved(base_result, enhanced_result) ==
    base_result.status # "ok" /\ enhanced_result.status = "ok"

\* an Optional[List[str]]
NoSnippets == [none |-> TRUE, list |-> <<>>]

Some(list) == [none |-> FALSE, list |-> list]

\* the entries of one bucket that name a fragment of the collection
Located(dependencies, bucket, count) ==
    SelectSeq(JGet(dependencies, bucket, JObj(<<>>)).o,
              LAMBDA item : LET snippet_idx == JGet(item[2].o, K_defined_in_snippet, None)
                            IN snippet_idx.k = "num" /\ snippet_idx.n < 10 * count)

\* the statements one bucket adds to context_lines: the texts under `key`
\* that are not empty
StatementsOf(located, key) ==
    LET statements == [m \in 1..Len(located) |-> JGet(located[m][2].o, key, JStr(<<>>))]
    IN [m \in 1..Len(SelectSeq(statements, Truthy)) |-> SelectSeq(statements, Truthy)[m].s]

\* EnhancedValidator._build_context_from_dependencies; <<>> for None
_build_context_from_dependencies(dependencies, all_snippets) ==
    Join(StatementsOf(Located(dependencies, K_imports, Len(all_snippets)), K_import_statement)
            \o StatementsOf(Located(dependencies, K_functions, Len(all_snippets)), K_definition)
            \o StatementsOf(Located(dependencies, K_classes, Len(all_snippets)), K_definition)
            \o StatementsOf(Located(dependencies, K_variables, Len(all_snippets)), K_definition),
         <<"\n">>)

\* the analyzer when validate_single did not reach it
NotAnalysed(client) ==
    [result |-> NoCall, client |-> client, parsed |-> NoCall, oracle |-> [called |-> FALSE]]

\* the mutant of ReturnsBase that overlooks a missing collection
ReturnsBaseWithoutCollection(status, enable_agents, all_snippets) ==
    status = "ok" \/ ~enable_agents

\* if base_result.status == 'ok' or not self.enable_agents or all_snippets is None
ReturnsBase(status, enable_agents, all_snippets) ==
    status = "ok" \/ ~enable_agents \/ all_snippets.none

\* what validate_single returns with: the result, the stats, the process and
\* what the analyzer did
ReturnedWith(enhanced_result, stats, process, analysis) ==
    [result |-> enhanced_result, stats |-> stats, process |-> process, analysis |-> analysis]

\* step 5 after validate ran the snippet under its context
WithContext(base_result, analysis, context_code, enhanced_validation, stats) ==
    ReturnedWith(EnhancedValidationResult(base_result,
                                      ValidationResult(enhanced_validation.status), TRUE,
                                      analysis.result.success, TRUE, context_code,
                                      DictOf(analysis.result.data),
                                      analysis.result.confidence, <<>>),
             IF success_improved(base_result, enhanced_validation)
             THEN [stats EXCEPT !.llm_improvements = @ + 1] ELSE stats,
             enhanced_validation.process, analysis)

\* steps 4 and 5: the context of the dependencies and the second validation
Revalidated(base_result, analysis, context_code, snippet_content, stats, process) ==
    IF context_code = <<>>
    THEN ReturnedWith(EnhancedValidationResult(base_result, NoCall, TRUE,
                                           analysis.result.success, FALSE, <<>>,
                                           DictOf(analysis.result.data),
                                           analysis.result.confidence, <<>>),
                  stats, process, analysis)
    ELSE WithContext(base_result, analysis, context_code,
                     validate(context_code \o <<"\n", "\n">> \o snippet_content, FALSE,
                              process),
                     stats)

\* the try block after the analysis returned analysis.result
AfterAnalysis(base_result, analysis, snippet_content, snippet_objects, stats, process) ==
    IF analysis.result.success /\ analysis.result.confidence > 5
    THEN Revalidated(base_result, analysis,
                     _build_context_from_dependencies(DictOf(analysis.result.data).o,
                                                      snippet_objects),
                     snippet_content, stats, process)
    ELSE ReturnedWith(EnhancedValidationResult(base_result, NoCall, TRUE,
                                           analysis.result.success, FALSE, <<>>,
                                           IF analysis.result.success
                                           THEN DictOf(analysis.result.data) ELSE NoCall,
                                           analysis.result.confidence, <<>>),
                  stats, process, analysis)

\* step 3: the try block and its handler; snippet_objects[snippet_index]
\* raises IndexError outside -len..len-1
ContextAnalysis(client, base_result, snippet_content, snippet_index, snippet_objects, kwargs, net, stats, process) ==
    IF snippet_index >= Len(snippet_objects) \/ snippet_index < 0 - Len(snippet_objects)
    THEN ReturnedWith(EnhancedValidationResult(base_result, NoCall, TRUE, FALSE, FALSE, <<>>,
                                           NoCall, 0, <<"list index out of range">>),
                  [stats EXCEPT !.fallbacks_used = @ + 1], process, NotAnalysed(client))
    ELSE AfterAnalysis(base_result,
                       analyze(client,
                               snippet_objects[(snippet_index % Len(snippet_objects)) + 1],
                               snippet_objects, snippet_index, kwargs, net),
                       snippet_content, snippet_objects, stats, process)

\* validate_single after step 1 returned `base`
AfterBase(enable_agents, client, base, snippet_content, snippet_index, all_snippets, kwargs, net, stats) ==
    IF ReturnsBase(base.status, enable_agents, all_snippets)
    THEN ReturnedWith(BaseOnly(ValidationResult(base.status)), stats, base.process,
                  NotAnalysed(client))
    ELSE ContextAnalysis(client, ValidationResult(base.status), snippet_content,
                         snippet_index, Snippets(all_snippets.list), kwargs, net,
                         [stats EXCEPT !.llm_analyses = @ + 1], base.process)

\* kwargs.get('normalize', True)
KwargsNormalize(kwargs) == IF "normalize" \in DOMAIN kwargs THEN kwargs.normalize ELSE TRUE

\* EnhancedValidator.validate_single(snippet_content, snippet_index,
\* all_snippets, **kwargs) of the validator `self`
validate_single(self, client, process, snippet_content, snippet_index, all_snippets, kwargs, net) ==
    AfterBase(self.enable_agents, client,
              validate(snippet_content, KwargsNormalize(kwargs), process),
              snippet_content, snippet_index, all_snippets, kwargs, net,
              [self.stats EXCEPT !.total_validations = @ + 1])

(***************************************************************************)
(* The enhanced validator as a state machine: one EnhancedValidator in a   *)
(* process, validate_single called on small collections while the network  *)
(* answers or fails, and the threads of slow snippets ending between calls. *)
(***************************************************************************)
MaxValidations == 2

ValidatorContents ==
    {Programs[m].code : m \in 1..7}

ValidatorCollections ==
    {NoSnippets, Some(<<>>),
     Some(<<SyntaxTrees[4].content, SyntaxTrees[1].content, SyntaxTrees[3].content>>)}

ValidatorKwargs == {NoKwargs, [normalize |-> FALSE]}

ValidatorNetwork ==
    {[kind |-> "ok", content |-> a, total_tokens |-> 100] :
        a \in ContextAnswers \cup {<<"{", "\"", "v", "a", "r", "i", "a", "b", "l", "e", "s", "\"", ":", " ", "[", "\"", "z", "\"", "]", ",", " ", "\"", "c", "o", "n", "f", "i", "d", "e", "n", "c", "e", "\"", ":", " ", "0", ".", "9", "}">>}}
        \cup {[kind |-> "error", content |-> <<>>, total_tokens |-> 0]}

Process == [builtins |-> builtins, threads |-> threads]

\* the state after a call that did what `done` says
ValidatedSingle(done) ==
    /\ result' = done.result
    /\ validator' = [validator EXCEPT !.stats = done.stats]
    /\ builtins' = done.process.builtins
    /\ threads' = done.process.threads
    /\ session_cost' = done.analysis.client.session_cost
    /\ session_requests' = done.analysis.client.session_requests
    /\ cache' = done.analysis.client.cache
    /\ tasks' = tasks
    /\ parsing_stats' = IF done.analysis.oracle.called /\ ~done.analysis.oracle.raised
                        THEN Counted(parsing_stats, done.analysis.parsed.counter)
                        ELSE parsing_stats
    /\ calls' = IF done.analysis.oracle.called /\ ~done.analysis.oracle.raised
                THEN calls + 1 ELSE calls
    /\ oracle' = done.analysis.oracle

\* await validator.validate_single(snippet_content, snippet_index,
\* all_snippets, **kwargs)
ValidateSingle(snippet_content, snippet_index, all_snippets, kwargs, net) ==
    /\ validator.stats.total_validations < MaxValidations
    /\ op' = "validate_single"
    /\ args' = [snippet_content |-> snippet_content, snippet_index |-> snippet_index,
                all_snippets |-> all_snippets, kwargs |-> kwargs,
                stats |-> validator.stats]
    /\ ValidatedSingle(validate_single(validator, Client, Process, snippet_content,
                                       snippet_index, all_snippets, kwargs, net))
    /\ UNCHANGED <<self_window_size, analyses, filterVars, builderVars>>

\* the snippet of thread t returns after validate gave up waiting for it
ThreadEnds(t) ==
    /\ threads[t].pc = "exec"
    /\ threads[t].runs = "slow"
    /\ op' = "thread_ends"
    /\ args' = [thread |-> t]
    /\ result' = NoCall
    /\ builtins' = Left(Process, t).builtins
    /\ threads' = Left(Process, t).threads
    /\ UNCHANGED <<validator, parserVars, clientVars, analyzerVars, filterVars, builderVars>>

\* EnhancedValidator(enable_agents=...), or its agents failing to start
InitValidator ==
    /\ op = "init"
    /\ args = NoCall
    /\ result = NoCall
    /\ ParserInit
    /\ ClientInit
    /\ AnalyzerIdle
    /\ FilterInit
    /\ BuilderIdle
    /\ validator \in {[enable_agents |-> e,
                       stats |-> [total_validations |-> 0, llm_analyses |-> 0,
                                  llm_improvements |-> 0, fallbacks_used |-> 0]] :
                        e \in BOOLEAN}
    /\ builtins = [input |-> Original, open |-> Original]
    /\ threads = <<>>

NextValidator ==
    \/ \E snippet_content \in ValidatorContents :
       \E all_snippets \in ValidatorCollections :
       \E snippet_index \in (0 - 1)..Len(all_snippets.list) :
       \E kwargs \in ValidatorKwargs :
       \E net \in ValidatorNetwork :
            ValidateSingle(snippet_content, snippet_index, all_snippets, kwargs, net)
    \/ \E t \in DOMAIN threads : ThreadEnds(t)

SpecValidator == InitValidator /\ [][NextValidator]_vars

\* the conditions under which validate_single goes on to the context analysis
AnalysisDue ==
    /\ result.base_result.status # "ok"
    /\ validator.enable_agents
    /\ ~args.all_snippets.none

\* C24: validate_single marks the context analysis as used and counts it in
\* llm_analyses exactly when the base status is not ok, the agents are
\* enabled and a collection was given; otherwise it returns the base result
\* alone, with no enhanced result, the flag false and the counter unchanged
C24_ContextAnalysisWhenDue ==
    op = "validate_single" =>
        /\ AnalysisDue <=> result.llm_analysis_used
        /\ AnalysisDue <=> validator.stats.llm_analyses = args.stats.llm_analyses + 1
        /\ ~AnalysisDue =>
                /\ result = BaseOnly(result.base_result)
                /\ result.enhanced_result = NoCall
                /\ validator.stats.llm_analyses = args.stats.llm_analyses

\* a failed snippet was analysed, run again under its context and passed
C24_ImprovedByTheAnalysis ==
    /\ op = "validate_single"
    /\ AnalysisDue
    /\ oracle.called
    /\ result.llm_analysis_used
    /\ result.base_result.status = "runtime_error"
    /\ result.enhanced_result = ValidationResult("ok")
    /\ validator.stats.llm_improvements = 1

\* corrected_text after the first correction alone
AfterFirstCorrection(t) == re_sub(corrections[1].pat, corrections[1].repl, Strip(t))

\* for the texts that parse hands to _try_error_correction (the strategies
\* before it returned None): json.loads of the text that carries only the
\* trailing-comma correction (a decoded null is what a strategy returns for
\* a failure, and is left out)
FirstCorrectionTable ==
    [t \in Texts |->
        IF ParseTable[t].counter \in {"none", "standard_json", "json_block_extraction"}
        THEN JFail
        ELSE IF json_loads(AfterFirstCorrection(t)).v = None THEN JFail
        ELSE json_loads(AfterFirstCorrection(t))]

\* C25: the repair strategy decodes after each repair and returns at the
\* first repair after which the text decodes: a text that decodes once its
\* trailing commas are removed is returned by the repair strategy with the
\* value decoded from the text that carries only that repair
C25_ReturnsAtTheFirstDecodableRepair ==
    (op = "parse" /\ FirstCorrectionTable[args.text].ok) =>
        /\ result.counter = "error_correction"
        /\ result.value = FirstCorrectionTable[args.text].v

\* the identifiers the fragment reads and does not itself assign, import or
\* define, the names the fallback treats as built-in left out
UndefinedReads(tree) == tree.load \ (tree.store \cup tree.defs \cup FallbackBuiltins)

\* C26: for a target that parses, the variables of the syntax-tree fallback
\* are exactly the identifiers the fragment reads and neither assigns,
\* imports nor defines, built-ins left out, each with confidence 0.3 and no
\* defining fragment, and the other three buckets are empty
C26_VariablesAreTheUndefinedReads ==
    (op = "_analyze_with_ast_fallback" /\ ast_parse(args.snippet.content).ok) =>
        /\ BucketNames(result.variables) = UndefinedReads(ast_parse(args.snippet.content))
        /\ \A item \in Items(result.variables) :
                /\ JGet(item[2].o, K_confidence, None) = JNum(3)
                /\ JGet(item[2].o, K_defined_in_snippet, JNum(0)) = None
        /\ result.classes = <<>>
        /\ result.imports = <<>>
        /\ result.functions = <<>>

\* GroqLLMClient.get_session_stats
get_session_stats(client) ==
    [requests_made |-> client.session_requests, total_cost |-> client.session_cost,
     cost_limit |-> max_cost_per_session,
     cost_remaining |-> max_cost_per_session - client.session_cost,
     model |-> model]

\* C27: whatever generate calls were made, the session cost stays within
\* max_cost_per_session, so the cost_remaining of get_session_stats is never
\* negative
C27_CostRemainingNeverNegative ==
    /\ session_cost <= max_cost_per_session
    /\ get_session_stats(Client).cost_remaining >= 0

(***************************************************************************)
(* validate and its snippet threads, step by step: the caller starts a     *)
(* thread and waits in t.join(timeout); the thread enters sandbox_env,     *)
(* runs the snippet and leaves sandbox_env, before the caller's timeout    *)
(* or, for a slow snippet, after it; a snippet that hangs never leaves.    *)
(* While op is "join" the caller is inside validate.                       *)
(***************************************************************************)
MaxThreads == 3

\* validate(code, normalize=normalize) up to `return` or to t.join
ValidateStart(code, normalize) ==
    /\ op # "join"
    /\ Len(threads) < MaxThreads
    /\ IF has_code(code_to_validate(code, normalize))
          /\ ProgramOf(code_to_validate(code, normalize)).ok
       THEN /\ op' = "join"
            /\ args' = [code |-> code, normalize |-> normalize, thread |-> Len(threads) + 1]
            /\ result' = NoCall
            /\ threads' = Append(threads,
                                 [pc |-> "start",
                                  runs |-> ProgramOf(code_to_validate(code, normalize)).runs,
                                  original_input |-> Original,
                                  original_open |-> Original])
       ELSE /\ op' = "validate"
            /\ args' = [code |-> code, normalize |-> normalize, thread |-> 0]
            /\ result' = ValidationResult(Checked(code_to_validate(code, normalize),
                                                  Process).status)
            /\ threads' = threads
    /\ UNCHANGED <<builtins, validator, parserVars, clientVars, analyzerVars, filterVars,
                   builderVars>>

\* thread t: sandbox_env saves the functions it finds and installs its own
ThreadEnter(t) ==
    /\ threads[t].pc = "start"
    /\ builtins' = [input |-> Safe(t), open |-> Safe(t)]
    /\ threads' = [threads EXCEPT ![t].pc = "exec",
                                  ![t].original_input = builtins.input,
                                  ![t].original_open = builtins.open]
    /\ UNCHANGED <<op, args, result, validator, parserVars, clientVars, analyzerVars,
                   filterVars, builderVars>>

\* thread t: the snippet ended and sandbox_env puts back what it saved; a
\* slow snippet ends after its caller stopped waiting
ThreadExit(t) ==
    /\ threads[t].pc = "exec"
    /\ threads[t].runs # "hangs"
    /\ threads[t].runs = "slow" => ~(op = "join" /\ args.thread = t)
    /\ builtins' = Left(Process, t).builtins
    /\ threads' = Left(Process, t).threads
    /\ UNCHANGED <<op, args, result, validator, parserVars, clientVars, analyzerVars,
                   filterVars, builderVars>>

\* t.join returns because the thread ended
JoinReturns ==
    /\ op = "join"
    /\ threads[args.thread].pc = "done"
    /\ op' = "validate"
    /\ result' = ValidationResult(IF threads[args.thread].runs = "raises"
                                  THEN "runtime_error" ELSE "ok")
    /\ UNCHANGED <<args, builtins, threads, validator, parserVars, clientVars,
                   analyzerVars, filterVars, builderVars>>

\* t.join returns because timeout_sec passed while the snippet was running
JoinTimesOut ==
    /\ op = "join"
    /\ threads[args.thread].pc = "exec"
    /\ threads[args.thread].runs \in {"slow", "hangs"}
    /\ op' = "validate"
    /\ result' = ValidationResult("timeout")
    /\ UNCHANGED <<args, builtins, threads, validator, parserVars, clientVars,
                   analyzerVars, filterVars, builderVars>>

NextSandbox ==
    \/ \E code \in ValidatorContents : \E normalize \in BOOLEAN :
            ValidateStart(code, normalize)
    \/ \E t \in DOMAIN threads : ThreadEnter(t)
    \/ \E t \in DOMAIN threads : ThreadExit(t)
    \/ JoinReturns
    \/ JoinTimesOut

SpecSandbox == InitParser /\ [][NextSandbox]_vars

Unpatched == builtins.input = Original /\ builtins.open = Original

\* C28: once validate has returned, whatever its status and whatever the
\* snippet threads of this and earlier calls do, builtins.input and
\* builtins.open are the original functions
C28_BuiltinsRestoredAfterValidate ==
    op = "validate" => Unpatched

(***************************************************************************)
(* snippets/agents/improved_context_analyzer.py: ImprovedContextAnalyzer,  *)
(* on the same client as the basic analyzer.  The fragments of the model   *)
(* carry no decorator, inheritance or framework pattern: their strategy is *)
(* "standard_improved", the one strategy modelled.                         *)
(***************************************************************************)
\* ImprovedContextAnalyzer._choose_enhanced_analysis_strategy, with
\* max_complexity_threshold = 0.8
_choose_enhanced_analysis_strategy(complexity) ==
    IF Above(complexity.complexity_score, 8) THEN "ultra_complex"
    ELSE IF Above(complexity.complexity_score, 5) THEN "complex_multi_pass"
    ELSE IF complexity.framework_patterns # <<>> THEN "framework_specialized"
    ELSE IF complexity.has_decorators \/ complexity.has_inheritance THEN "pattern_aware"
    ELSE "standard_improved"

\* [all_snippets[cs['index']] for cs in context_snippets_data if not cs['is_target']]
WindowSnippets(all_snippets, context_snippets_data) ==
    LET others == SelectSeq(context_snippets_data, LAMBDA cs : ~cs.is_target)
    IN [m \in 1..Len(others) |-> all_snippets[others[m].index + 1]]

\* the fragments a to b of a collection, fragment r left out
Stretch(all_snippets, a, b, r) ==
    SelectSeq(SubSeq(all_snippets, a, b), LAMBDA s : s.index # r)

\* the windows a target can be given in the collections of the model
Stretches ==
    UNION {{Stretch(c, a, b, r) : a \in 1..(Len(c) + 1), b \in 0..Len(c),
                                  r \in (0 - 1)..Len(c)} : c \in Collections}

\* _analyze_code_complexity for the targets and windows of the model
ComplexityTable ==
    [snippet \in UNION {{c[m] : m \in 1..Len(c)} : c \in Collections} |->
        [context_snippets \in Stretches |->
            _analyze_code_complexity(snippet, context_snippets)]]

\* the strategy analyze chooses for its arguments
StrategyOf(snippet, all_snippets, snippet_index) ==
    _choose_enhanced_analysis_strategy(
        ComplexityTable[snippet][WindowSnippets(all_snippets,
                                                _extract_context_snippets(all_snippets,
                                                                          snippet_index))])

\* the result of the handler `except Exception as e` of analyze:
\* DependencyMap has no to_dict, so building the AgentResult raises
ImprovedFailed ==
    AgentResult(FALSE, <<>>, 0,
                <<"Improved analysis failed: ",
                  "'DependencyMap' object has no attribute 'to_dict'">>,
                [analysis_strategy |-> "failed"])

\* analyze from the return of _with_timeout_and_retry in
\* _analyze_with_standard_template to its end
AfterStandardTemplate(llm_analysis) ==
    [result |-> ImprovedFailed,
     client |-> llm_analysis.client,
     oracle |-> [called |-> TRUE, raised |-> llm_analysis.raised,
                 error |-> llm_analysis.error, timed_out |-> llm_analysis.timed_out,
                 cached |-> llm_analysis.cached, requested |-> llm_analysis.requested,
                 map |-> NoCall]]

\* ImprovedContextAnalyzer.analyze(snippet, all_snippets, snippet_index) with
\* the strategy "standard_improved"
ImprovedContextAnalyzer_analyze(client, snippet, all_snippets, snippet_index, net) ==
    AfterStandardTemplate(
        _with_timeout_and_retry(
            generate(client,
                     Prompt(snippet, _extract_context_snippets(all_snippets, snippet_index)),
                     SystemMessage, net)))

\* the state after a call of the improved analyzer that did what `done` says
ImprovedAnalyzed(done) ==
    /\ result' = done.result
    /\ session_cost' = done.client.session_cost
    /\ session_requests' = done.client.session_requests
    /\ cache' = done.client.cache
    /\ oracle' = done.oracle

\* await improved.analyze(snippet, all_snippets, snippet_index)
ImprovedAnalyze(snippet, all_snippets, snippet_index, net) ==
    /\ analyses < MaxAnalyses
    /\ StrategyOf(snippet, all_snippets, snippet_index) = "standard_improved"
    /\ op' = "improved_analyze"
    /\ args' = [snippet |-> snippet, all_snippets |-> all_snippets,
                snippet_index |-> snippet_index, kwargs |-> NoKwargs]
    /\ ImprovedAnalyzed(ImprovedContextAnalyzer_analyze(Client, snippet, all_snippets,
                                                        snippet_index, net))
    /\ analyses' = analyses + 1
    /\ UNCHANGED <<tasks, self_window_size, parserVars, filterVars, builderVars,
                   validatorVars>>

NextAnalyzers ==
    \/ Next
    \/ \E all_snippets \in Collections :
       \E snippet_index \in (0 - 1)..Len(all_snippets) :
       \E snippet \in {all_snippets[i] : i \in {1, snippet_index + 1} \cap DOMAIN all_snippets} :
       \E net \in Network :
            ImprovedAnalyze(snippet, all_snippets, snippet_index, net)

SpecAnalyzers == Init /\ [][NextAnalyzers]_vars

\* C29: with a negative index, an index not below the number of fragments or
\* a target whose index is not the one given, analyze of the basic and of
\* the improved analyzer calls the Oracle for nothing and returns a failure
\* of confidence 0
C29_InvalidInputsReachNoOracle ==
    (/\ op \in {"analyze", "improved_analyze"}
     /\ _validate_inputs(args.snippet, args.all_snippets, args.snippet_index) # <<>>) =>
        /\ ~oracle.called
        /\ ~result.success
        /\ result.confidence = 0


(***************************************************************************)
(* The statistics of the parser against the calls it was given.            *)
(***************************************************************************)
\* C30: after any sequence of parse calls on one parser the six counters of
\* parsing_stats add up to the number of parse calls made (since the
\* statistics were last reset): every call increments exactly one counter
C30_CountersAddUpToTheCalls ==
    parsing_stats.standard_json + parsing_stats.json_block_extraction
        + parsing_stats.error_correction + parsing_stats.json5_parsing
        + parsing_stats.minimal_fallback + parsing_stats.total_failures = calls

=============================================================================
